---- MODULE Spec2Model ----
(***************************************************************************)
(* Model of the database connection abstraction of scripts-support:        *)
(* DatabaseConnection (src/db/base.py), SQLiteConnection (src/db/sqlite.py)*)
(* and MySQLConnection (src/db/mysql.py).                                  *)
(*                                                                         *)
(* One Connection object works on one database that holds one table,       *)
(* "users", with an integer primary key column "id" and one nullable       *)
(* column "age".  The drivers (sqlite3, SQLAlchemy) are modelled by what   *)
(* their calls do to the database and by when they can raise.              *)
(***************************************************************************)
EXTENDS Integers, Sequences, FiniteSets, TLC

\* ------------------------------------------------------------------------
\* Bounds of the model
\* ------------------------------------------------------------------------
MaxLen == 3        \* longest identifier string enumerated for the validator
MaxId == 2         \* largest primary key the table can hold
MaxRows == 2       \* longest row list passed to insert

\* ------------------------------------------------------------------------
\* Strings are sequences of characters
\* ------------------------------------------------------------------------
Letters == {"a", "d", "e", "g", "i", "u", "x", "Z"}
Digits == {"1"}
Underscore == "_"
NewLine == "\n"
IdentChars == {"a", "Z", "_", "1", ";", "-", ".", " ", "\n"}

\* the character classes of _IDENTIFIER_PATTERN
HeadClass == Letters \cup {Underscore}
WordClass == Letters \cup Digits \cup {Underscore}

\* re "$": the end of the string, or just before a line break that is the
\* last character of the string
DollarAt(s, k) ==
    \/ k = Len(s)
    \/ k = Len(s) - 1 /\ s[Len(s)] = NewLine

\* _IDENTIFIER_PATTERN.match(s): ^[a-zA-Z_][a-zA-Z0-9_]*$ matched from
\* position 1; k is the number of characters the character classes consume
PatternMatch(s) ==
    /\ Len(s) >= 1
    /\ s[1] \in HeadClass
    /\ \E k \in 1..Len(s) :
          /\ \A i \in 2..k : s[i] \in WordClass
          /\ DollarAt(s, k)

\* DatabaseConnection._is_valid_identifier
IsValidIdentifier(s) ==
    PatternMatch(s)

\* DatabaseConnection._validate_identifiers: TRUE when no ValueError is raised
ValidateIdentifiersAny(names) ==
    names = {} \/ \E n \in names : IsValidIdentifier(n)
ValidateIdentifiers(names) ==
    \A n \in names : IsValidIdentifier(n)

\* all strings over IdentChars of length at most n
RECURSIVE StringsUpTo(_)
StringsUpTo(n) ==
    IF n = 0 THEN {<<>>}
    ELSE LET shorter == StringsUpTo(n - 1)
         IN  shorter \cup {Append(s, c) : s \in {t \in shorter : Len(t) = n - 1}, c \in IdentChars}

\* ------------------------------------------------------------------------
\* The database: one table "users" (id INTEGER PRIMARY KEY, age INTEGER)
\* ------------------------------------------------------------------------
NULL == 0          \* SQL NULL / Python None
Absent == -1       \* no row with this id
AgeVals == {NULL, 1, 2}

Users == <<"u">>               \* the table that exists
NoTable == <<"x">>             \* a valid name, no such table
BadTable == <<"u", ";">>       \* not an identifier
IdCol == <<"i", "d">>
AgeCol == <<"a", "g", "e">>
BadCol == <<"a", "-">>         \* not an identifier
EmptyMap == <<>>               \* {} ; also the empty list []

\* primary_key_column given to the constructor
PrimaryKeyColumn == IdCol

EmptyTable == [rows |-> [i \in 1..MaxId |-> Absent], seq |-> 0]

Ids(t) == {i \in 1..MaxId : t.rows[i] # Absent}

MaxOf(S) == IF S = {} THEN 0 ELSE CHOOSE m \in S : \A x \in S : x <= m

\* a table as a set of <<id, age>> rows (the rows of a DataFrame)
RowsOf(t) == {<<i, t.rows[i]>> : i \in Ids(t)}

\* WHERE clause built from a filter mapping: None renders as IS NULL,
\* any other value as "column = ?"
FilterMatches(f, i, v) ==
    \A c \in DOMAIN f :
        LET cell == IF c = IdCol THEN i ELSE v
        IN  IF f[c] = NULL THEN cell = NULL ELSE cell = f[c]

Matching(t, f) == {i \in Ids(t) : FilterMatches(f, i, t.rows[i])}

\* the rowid the engine gives a row inserted without an explicit id:
\* INTEGER PRIMARY KEY takes max(id)+1 of the rows present, AUTOINCREMENT
\* never reuses an id (sqlite_sequence keeps the largest id ever used)
NextRowId(t, auto) ==
    IF auto THEN (IF t.seq > MaxOf(Ids(t)) THEN t.seq ELSE MaxOf(Ids(t))) + 1
    ELSE MaxOf(Ids(t)) + 1

RowAge(row) == IF AgeCol \in DOMAIN row THEN row[AgeCol] ELSE NULL

RowId(t, row, auto) ==
    IF IdCol \in DOMAIN row /\ row[IdCol] # NULL THEN row[IdCol] ELSE NextRowId(t, auto)

\* one INSERT: fails on a duplicate primary key
InsertOk(t, row, auto) == RowId(t, row, auto) \notin Ids(t)

InsertOne(t, row, auto) ==
    LET id == RowId(t, row, auto)
    IN  [rows |-> [t.rows EXCEPT ![id] = RowAge(row)],
         seq  |-> IF auto /\ id > t.seq THEN id ELSE t.seq]

\* executemany: the rows one after the other, stopping at the first failure;
\* the rows already written stay in the open transaction
RECURSIVE InsertMany(_, _, _)
InsertMany(t, rows, auto) ==
    IF rows = <<>> THEN [ok |-> TRUE, t |-> t]
    ELSE IF ~InsertOk(t, Head(rows), auto) THEN [ok |-> FALSE, t |-> t]
    ELSE InsertMany(InsertOne(t, Head(rows), auto), Tail(rows), auto)

\* the ids the rows of an insert get (for bounding the model)
RECURSIVE InsertFits(_, _, _)
InsertFits(t, rows, auto) ==
    IF rows = <<>> THEN TRUE
    ELSE /\ RowId(t, Head(rows), auto) <= MaxId
         /\ \/ ~InsertOk(t, Head(rows), auto)
            \/ InsertFits(InsertOne(t, Head(rows), auto), Tail(rows), auto)

\* UPDATE users SET age = v WHERE filters
UpdateRows(t, params, f) ==
    [t EXCEPT !.rows = [i \in 1..MaxId |->
        IF i \in Matching(t, f) /\ AgeCol \in DOMAIN params THEN params[AgeCol] ELSE t.rows[i]]]

\* DELETE FROM users WHERE filters
DeleteRows(t, f) ==
    [t EXCEPT !.rows = [i \in 1..MaxId |-> IF i \in Matching(t, f) THEN Absent ELSE t.rows[i]]]

\* SELECT * FROM users WHERE filters
SelectRows(t, f) == {<<i, t.rows[i]>> : i \in Matching(t, f)}

\* SELECT * FROM users WHERE id IN ids
SelectIds(t, ids) == {<<i, t.rows[i]>> : i \in Ids(t) \cap ids}

\* ------------------------------------------------------------------------
\* State
\* ------------------------------------------------------------------------
VARIABLES
    backend,          \* "sqlite" or "mysql": the class of the Connection
    autoinc,          \* the id column is AUTOINCREMENT / AUTO_INCREMENT
    db_connection,    \* SQLiteConnection.db_connection: "None" or "open"
    db_cursor,        \* SQLiteConnection.db_cursor: "None" or "set"
    isolation_level,  \* isolation level the open sqlite handle was opened with
    db_engine,        \* MySQLConnection.db_engine: "None" or "set"
    committed,        \* the table as stored in the database
    working,          \* the table as the open handle sees it (uncommitted changes included)
    scope,            \* TRUE inside a with-block on the Connection
    last,             \* the last call: its arguments, the calls it made, its outcome
    identifier,       \* argument of _is_valid_identifier
    checked,          \* _is_valid_identifier has been called on identifier
    is_valid,         \* its return value
    CONNECTORS,       \* DatabaseFactory._CONNECTORS, in insertion order
    fcall,            \* the last call on the factory and its outcome
    method,           \* retry_request: the HTTP method
    max_attempts,     \* retry_request: max_attempts
    retry_delay,      \* retry_request: retry_delay
    raise_for_status, \* retry_request: kwargs["raise_for_status"]
    attempt,          \* retry_request: the loop variable
    pc,               \* retry_request: where the call is
    log,              \* retry_request: the outcome of every request made so far
    slept,            \* retry_request: the argument of every sleep made so far
    retry_result,     \* retry_request: what the call returned or raised
    files,            \* generate_temp_file: the files of the temporary directory
    gen,              \* generate_temp_file: each caller's call, its position and outcome
    started,          \* generate_temp_file: the calls begun so far
    handed,           \* generate_temp_file: every path returned so far, in order
    logging_configured, \* logger._logging_configured
    config_lock,      \* logger._config_lock: Unlocked or the thread that holds it
    thread,           \* logging: each thread's call, its position and outcome
    dict_config,      \* logging.config.dictConfig: the calls made and the calls that succeeded
    log_calls,        \* logging: the calls begun so far
    directory,        \* wait_for_files: the names of the objects in the directory polled
    now,              \* wait_for_files: the clock, in seconds
    wait,             \* wait_for_files: the call, its local variables, its position and outcome
    post_call,        \* post-processing: the call whose rows are post-processed and its arguments
    df                \* post-processing: the table the call returns

factory == <<CONNECTORS, fcall>>
retry_args == <<method, max_attempts, retry_delay, raise_for_status>>
retry == <<retry_args, attempt, pc, log, slept, retry_result>>
temp == <<files, gen, started, handed>>
logging == <<logging_configured, config_lock, thread, dict_config, log_calls>>
waiting == <<directory, now, wait>>
frames == <<post_call, df>>

vars == <<backend, autoinc, db_connection, db_cursor, isolation_level, db_engine,
          committed, working, scope, last, identifier, checked, is_valid, factory, retry,
          temp, logging, waiting, frames>>

config == <<backend, autoinc>>
handle == <<db_connection, db_cursor, isolation_level, db_engine>>
ident == <<identifier, checked, is_valid>>

NoOut == [kind |-> "None", rows |-> {}, n |-> 0]
DataFrame(rs) == [kind |-> "DataFrame", rows |-> rs, n |-> Cardinality(rs)]
IntOut(k) == [kind |-> "int", rows |-> {}, n |-> k]
BoolOut(b) == [kind |-> "bool", rows |-> {}, n |-> IF b THEN 1 ELSE 0]
CursorOut == [kind |-> "cursor", rows |-> {}, n |-> 0]

\* a call record; every field an operation does not use keeps its default
Call(op) ==
    [op |-> op, table |-> <<>>, columns |-> <<>>, filters |-> EmptyMap,
     parameters |-> EmptyMap, rows |-> <<>>, ret |-> FALSE, sql |-> "",
     commit |-> FALSE, exc |-> "None", fault |-> "none", dirty |-> FALSE,
     held |-> FALSE, stored |-> EmptyTable,
     result |-> "ok", code |-> "", out |-> NoOut, trace |-> <<>>]

\* the calls into the driver that can appear in a trace
DriverCalls == {"connect", "pragma", "cursor", "create_engine", "engine.connect",
                "autoload", "execute", "executemany", "commit", "rollback",
                "close", "dispose", "read_sql", "fetch"}

DriverTrace(tr) == SelectSeq(tr, LAMBDA c : c \in DriverCalls)

Raise(call, kind, code, tr) ==
    [call EXCEPT !.result = kind, !.code = code, !.trace = tr]

Return(call, out, tr) ==
    [call EXCEPT !.result = "ok", !.out = out, !.trace = tr]

\* ------------------------------------------------------------------------
\* The driver's transaction: db = [c |-> committed table, w |-> working table]
\* ------------------------------------------------------------------------
DbCommit(db) == [c |-> db.w, w |-> db.w]
DbRollback(db) == [c |-> db.c, w |-> db.c]
\* closing a handle discards what was not committed
DbCloseCommits(db) == [c |-> db.w, w |-> db.w]
DbClose(db) == [c |-> db.c, w |-> db.c]

\* the Connection's handle fields and the database, as records
H == [conn |-> db_connection, cur |-> db_cursor, iso |-> isolation_level, engine |-> db_engine]
Db == [c |-> committed, w |-> working]

\* an outcome o = [h, db, last] becomes the next state; the call record
\* also notes whether the handle had uncommitted changes when the call began,
\* whether db_connection referenced a handle then, what the database stored
\* then, and which driver fault the call met
Apply(o, fault) ==
    /\ db_connection' = o.h.conn
    /\ db_cursor' = o.h.cur
    /\ isolation_level' = o.h.iso
    /\ db_engine' = o.h.engine
    /\ committed' = o.db.c
    /\ working' = o.db.w
    /\ last' = [o.last EXCEPT !.dirty = (working # committed), !.fault = fault,
                            !.held = (db_connection # "None"), !.stored = committed]

\* ------------------------------------------------------------------------
\* Connection lifecycle
\* ------------------------------------------------------------------------

\* SQLiteConnection._connect_db: the handle fields after the call, whether
\* it raised DatabaseError(CONNECTION_ERROR) and the driver calls it made.
\* fault = "open": sqlite3.connect raises; fault = "pragma": the PRAGMA
\* statement raises after the handle was stored in db_connection.
SqliteConnectDbReopens(h, iso, fault) ==
    IF fault = "open"
    THEN [h |-> h, err |-> TRUE, trace |-> <<"connect">>]
    ELSE IF fault = "pragma"
    THEN [h |-> [h EXCEPT !.conn = "open", !.iso = iso], err |-> TRUE,
          trace |-> <<"connect", "pragma">>]
    ELSE [h |-> [h EXCEPT !.conn = "open", !.cur = "set", !.iso = iso], err |-> FALSE,
          trace |-> <<"connect", "pragma", "cursor">>]
SqliteConnectDb(h, iso, fault) ==
    IF h.conn # "None" /\ h.cur # "None"
    THEN [h |-> h, err |-> FALSE, trace |-> <<>>]
    ELSE IF fault = "open"
    THEN [h |-> h, err |-> TRUE, trace |-> <<"connect">>]
    ELSE IF fault = "pragma"
    THEN [h |-> [h EXCEPT !.conn = "open", !.iso = iso], err |-> TRUE,
          trace |-> <<"connect", "pragma">>]
    ELSE [h |-> [h EXCEPT !.conn = "open", !.cur = "set", !.iso = iso], err |-> FALSE,
          trace |-> <<"connect", "pragma", "cursor">>]

\* MySQLConnection._connect_db
MysqlConnectDb(h, fault) ==
    IF h.engine # "None"
    THEN [h |-> h, err |-> FALSE, trace |-> <<>>]
    ELSE IF fault = "open"
    THEN [h |-> h, err |-> TRUE, trace |-> <<"create_engine">>]
    ELSE [h |-> [h EXCEPT !.engine = "set"], err |-> FALSE, trace |-> <<"create_engine">>]

ConnectDb(h, iso, fault) ==
    IF backend = "sqlite" THEN SqliteConnectDb(h, iso, fault) ELSE MysqlConnectDb(h, fault)

\* SQLiteConnection._disconnect_db / MySQLConnection._disconnect_db.
\* closeFail: the driver's close() / dispose() raises; the error is swallowed
\* ("except Exception: pass") and the finally clause clears the fields.
SqliteDisconnectDbRaises(h, db, closeFail) ==
    IF h.conn # "None" /\ closeFail
    THEN [h |-> h, db |-> db, err |-> TRUE, trace |-> <<"_disconnect_db", "close">>]
    ELSE IF h.conn # "None"
    THEN [h |-> [h EXCEPT !.conn = "None", !.cur = "None", !.iso = "None"],
          db |-> DbClose(db), err |-> FALSE, trace |-> <<"_disconnect_db", "close">>]
    ELSE [h |-> h, db |-> db, err |-> FALSE, trace |-> <<"_disconnect_db">>]
SqliteDisconnectDb(h, db, closeFail) ==
    IF h.conn # "None"
    THEN [h |-> [h EXCEPT !.conn = "None", !.cur = "None", !.iso = "None"],
          db |-> DbClose(db), err |-> FALSE, trace |-> <<"_disconnect_db", "close">>]
    ELSE [h |-> h, db |-> db, err |-> FALSE, trace |-> <<"_disconnect_db">>]

MysqlDisconnectDb(h, db, closeFail) ==
    IF h.engine # "None"
    THEN [h |-> [h EXCEPT !.engine = "None"], db |-> db, err |-> FALSE,
          trace |-> <<"_disconnect_db", "dispose">>]
    ELSE [h |-> h, db |-> db, err |-> FALSE, trace |-> <<"_disconnect_db">>]

DisconnectDb(h, db, closeFail) ==
    IF backend = "sqlite" THEN SqliteDisconnectDb(h, db, closeFail)
    ELSE MysqlDisconnectDb(h, db, closeFail)

\* SQLiteConnection.is_connected / MySQLConnection.is_connected: a handle is
\* referenced and "SELECT 1" runs on it (alive)
IsConnected(h, alive) ==
    IF backend = "sqlite" THEN h.conn # "None" /\ alive ELSE h.engine # "None" /\ alive

\* SQLiteConnection._rollback / MySQLConnection._rollback.  rbFail: the
\* driver raises (sqlite: rollback() on a handle that can no longer be used,
\* its transaction is gone; mysql: engine.connect() cannot reach the server).
\* The MySQL rollback runs on a fresh pooled connection: it undoes nothing.
SqliteRollbackCommits(h, db, rbFail) ==
    IF h.conn = "None" THEN [db |-> db, err |-> FALSE, trace |-> <<"_rollback">>]
    ELSE [db |-> DbCommit(db), err |-> rbFail, trace |-> <<"_rollback", "commit">>]
SqliteRollback(h, db, rbFail) ==
    IF h.conn = "None" THEN [db |-> db, err |-> FALSE, trace |-> <<"_rollback">>]
    ELSE [db |-> DbRollback(db), err |-> rbFail, trace |-> <<"_rollback", "rollback">>]

MysqlRollback(h, db, rbFail) ==
    IF h.engine = "None" THEN [db |-> db, err |-> FALSE, trace |-> <<"_rollback">>]
    ELSE IF rbFail THEN [db |-> db, err |-> TRUE, trace |-> <<"_rollback", "engine.connect">>]
    ELSE [db |-> db, err |-> FALSE, trace |-> <<"_rollback", "engine.connect", "rollback">>]

Rollback(h, db, rbFail) ==
    IF backend = "sqlite" THEN SqliteRollback(h, db, rbFail) ELSE MysqlRollback(h, db, rbFail)

\* between two calls: the caller has seen the outcome of the last one
Idle == last.op = "idle"

Continue ==
    /\ ~Idle
    /\ last' = Call("idle")
    /\ UNCHANGED <<config, handle, committed, working, scope, ident, factory, retry, temp, logging, waiting, frames>>

ConnectFaults == {"none", "open", "pragma"}

\* explicit _connect_db() call (default isolation level DEFERRED)
ConnectCall(h, db, fault) ==
    LET c == ConnectDb(h, "DEFERRED", fault)
    IN  [h |-> c.h, db |-> db,
         last |-> IF c.err
                  THEN Raise(Call("_connect_db"), "DatabaseError", "CONNECTION_ERROR", c.trace)
                  ELSE Return(Call("_connect_db"), NoOut, c.trace)]

Connect ==
    \E fault \in ConnectFaults :
        /\ Idle
        /\ Apply(ConnectCall(H, Db, fault), fault)
        /\ UNCHANGED <<config, scope, ident, factory, retry, temp, logging, waiting, frames>>

\* explicit _disconnect_db() call
DisconnectCall(h, db, closeFail) ==
    LET d == DisconnectDb(h, db, closeFail)
    IN  [h |-> d.h, db |-> d.db,
         last |-> IF d.err THEN Raise(Call("_disconnect_db"), "DriverError", "", d.trace)
                  ELSE Return(Call("_disconnect_db"), NoOut, d.trace)]

Disconnect ==
    \E closeFail \in BOOLEAN :
        /\ Idle
        /\ ~scope
        /\ closeFail => (db_connection # "None" \/ db_engine # "None")
        /\ Apply(DisconnectCall(H, Db, closeFail), IF closeFail THEN "close" ELSE "none")
        /\ UNCHANGED <<config, scope, ident, factory, retry, temp, logging, waiting, frames>>

\* __enter__
EnterCall(h, db, fault) ==
    LET c == ConnectDb(h, "DEFERRED", fault)
    IN  [h |-> c.h, db |-> db,
         last |-> IF c.err
                  THEN Raise(Call("__enter__"), "DatabaseError", "CONNECTION_ERROR", c.trace)
                  ELSE Return(Call("__enter__"), NoOut, c.trace)]

EnterScope ==
    \E fault \in ConnectFaults :
        /\ Idle
        /\ ~scope
        /\ Apply(EnterCall(H, Db, fault), fault)
        /\ scope' = (last'.result = "ok")
        /\ UNCHANGED <<config, ident, factory, retry, temp, logging, waiting, frames>>

\* exceptions that can propagate out of a with-block
BlockExceptions == {"None", "ValueError", "DatabaseError"}

\* __exit__(exc_type, ...): rollback when an exception is propagating, then
\* disconnect, then return False (the exception, if any, is re-raised).
\* When _rollback raises, the statements after it are never reached and the
\* driver's error is what the caller sees.
ExitCall(h, db, exc, rbFail, closeFail) ==
    LET call == [Call("__exit__") EXCEPT !.exc = exc]
        r == IF exc # "None" THEN Rollback(h, db, rbFail)
             ELSE [db |-> db, err |-> FALSE, trace |-> <<>>]
        d == DisconnectDb(h, r.db, closeFail)
    IN  IF r.err
        THEN [h |-> h, db |-> r.db, last |-> Raise(call, "DriverError", "", r.trace)]
        ELSE IF d.err
        THEN [h |-> d.h, db |-> d.db, last |-> Raise(call, "DriverError", "", r.trace \o d.trace)]
        ELSE [h |-> d.h, db |-> d.db,
              last |-> [call EXCEPT !.result = IF exc = "None" THEN "ok" ELSE exc,
                                    !.trace = r.trace \o d.trace]]

ExitScope ==
    \E exc \in BlockExceptions, rbFail \in BOOLEAN, closeFail \in BOOLEAN :
        /\ Idle
        /\ scope
        /\ scope' = FALSE
        /\ Apply(ExitCall(H, Db, exc, rbFail, closeFail), IF rbFail THEN "rollback" ELSE "none")
        /\ UNCHANGED <<config, ident, factory, retry, temp, logging, waiting, frames>>

\* ------------------------------------------------------------------------
\* Arguments of the CRUD calls
\* ------------------------------------------------------------------------
TableNames == {Users, NoTable, BadTable}
ColumnLists == {<<>>, <<AgeCol>>, <<BadCol>>}        \* <<>> is columns=None
FilterSet ==
    {EmptyMap} \cup {IdCol :> k : k \in 1..MaxId} \cup {AgeCol :> v : v \in AgeVals}
    \cup {BadCol :> 1, (AgeCol :> 1) @@ (BadCol :> 1)}
ParameterSet == {EmptyMap} \cup {AgeCol :> v : v \in AgeVals} \cup {BadCol :> 1}
RowSet ==
    {AgeCol :> v : v \in AgeVals} \cup {(IdCol :> k) @@ (AgeCol :> 1) : k \in 1..MaxId}
    \cup {BadCol :> 1}
RECURSIVE RowListsUpTo(_)
RowListsUpTo(n) ==
    IF n = 0 THEN {<<>>}
    ELSE LET shorter == RowListsUpTo(n - 1)
         IN  shorter \cup {Append(l, r) : l \in {m \in shorter : Len(m) = n - 1}, r \in RowSet}
NoLimit == -2                                        \* limit=None
Limits == {NoLimit, -1, 1}
Statements == {"INSERT INTO u (age) VALUES (1)", "SELECT 1", "BAD SQL"}

\* where the driver can raise during one call
\* ("link": MySQL only, the engine cannot hand out a connection)
Faults == {"none", "open", "pragma", "link", "execute", "commit", "post"}
\* a fault together with "the rollback that follows it raises too"
FaultCases ==
    {<<f, FALSE>> : f \in Faults} \cup {<<f, TRUE>> : f \in {"execute", "commit", "post"}}

Range(f) == {f[i] : i \in DOMAIN f}
KeysOf(rows) == UNION {DOMAIN rows[i] : i \in DOMAIN rows}
\* "all(set(row.keys()) == first_row_keys for row in rows)"
SameKeysSubset(rows) == \A i \in DOMAIN rows : DOMAIN rows[1] \subseteq DOMAIN rows[i]
SameKeys(rows) == \A i \in DOMAIN rows : DOMAIN rows[i] = DOMAIN rows[1]

\* the k rows of smallest id (LIMIT k without ORDER BY reads in rowid order)
LimitRows(rs, k) ==
    IF k = NoLimit THEN rs
    ELSE {r \in rs : Cardinality({q \in rs : q[1] < r[1]}) < k}

\* ------------------------------------------------------------------------
\* SQLiteConnection
\* ------------------------------------------------------------------------

\* "except Exception: self.db_connection.rollback(); raise DatabaseError(code)"
SqliteFailDisconnects(h, db, call, code, tr, rbFail) ==
    [h |-> [h EXCEPT !.conn = "None", !.cur = "None", !.iso = "None"], db |-> DbRollback(db),
     last |-> IF rbFail THEN Raise(call, "DriverError", "", tr \o <<"rollback">>)
              ELSE Raise(call, "DatabaseError", code, tr \o <<"rollback">>)]
SqliteFail(h, db, call, code, tr, rbFail) ==
    [h |-> h, db |-> DbRollback(db),
     last |-> IF rbFail THEN Raise(call, "DriverError", "", tr \o <<"rollback">>)
              ELSE Raise(call, "DatabaseError", code, tr \o <<"rollback">>)]

\* SQLiteConnection.select
SqliteSelect(h, db, table, columns, filters, limit, fault) ==
    LET call == [Call("select") EXCEPT !.table = table, !.columns = columns, !.filters = filters]
        c == SqliteConnectDb(h, "DEFERRED", fault)
    IN  IF ~ValidateIdentifiers({table}) \/ ~ValidateIdentifiers(Range(columns))
           \/ ~ValidateIdentifiers(DOMAIN filters)
        THEN [h |-> h, db |-> db, last |-> Raise(call, "ValueError", "", <<>>)]
        ELSE IF limit # NoLimit /\ limit < 0
        THEN [h |-> h, db |-> db, last |-> Raise(call, "ValueError", "", <<>>)]
        ELSE IF c.err
        THEN [h |-> c.h, db |-> db, last |-> Raise(call, "DatabaseError", "SELECT_ERROR", c.trace)]
        ELSE IF table # Users \/ fault \in {"execute", "post"}
        THEN [h |-> c.h, db |-> db,
              last |-> Raise(call, "DatabaseError", "SELECT_ERROR", c.trace \o <<"read_sql">>)]
        ELSE [h |-> c.h, db |-> db,
              last |-> Return(call, DataFrame(LimitRows(SelectRows(db.w, filters), limit)),
                              c.trace \o <<"read_sql">>)]

\* SQLiteConnection.insert
SqliteInsert(h, db, table, rows, ret, fault, rbFail) ==
    LET call == [Call("insert") EXCEPT !.table = table, !.rows = rows, !.ret = ret]
        c == SqliteConnectDb(h, "IMMEDIATE", fault)
        echo == ret /\ PrimaryKeyColumn # <<>>
        \* first_id = (MAX(pk) or 0) + 1
        first_id == MaxOf(Ids(db.w)) + 1
        t1 == IF echo THEN c.trace \o <<"execute">> ELSE c.trace
        ins == InsertMany(db.w, rows, autoinc)
        db2 == [db EXCEPT !.w = ins.t]
        t2 == t1 \o <<"executemany">>
        db3 == DbCommit(db2)
        t3 == t2 \o <<"commit">>
        last_id == first_id + Len(rows) - 1
    IN  IF rows = <<>>
        THEN [h |-> h, db |-> db, last |-> Raise(call, "ValueError", "", <<>>)]
        ELSE IF ~ValidateIdentifiers({table}) \/ ~ValidateIdentifiers(KeysOf(rows))
        THEN [h |-> h, db |-> db, last |-> Raise(call, "ValueError", "", <<>>)]
        ELSE IF ~SameKeys(rows)
        THEN [h |-> h, db |-> db, last |-> Raise(call, "ValueError", "", <<>>)]
        ELSE IF c.err
        THEN [h |-> c.h, db |-> db,
              last |-> Raise(call, "DatabaseError", "CONNECTION_ERROR", c.trace)]
        ELSE IF echo /\ table # Users
        THEN SqliteFail(c.h, db, call, "INSERT_ERROR", t1, rbFail)
        ELSE IF table # Users \/ fault = "execute" \/ ~ins.ok
        THEN SqliteFail(c.h, db2, call, "INSERT_ERROR", t2, rbFail)
        ELSE IF fault = "commit"
        THEN SqliteFail(c.h, db2, call, "INSERT_ERROR", t3, rbFail)
        ELSE IF echo /\ fault = "post"
        THEN SqliteFail(c.h, db3, call, "INSERT_ERROR", t3 \o <<"read_sql">>, rbFail)
        ELSE IF echo
        THEN [h |-> c.h, db |-> db3,
              last |-> Return(call, DataFrame(SelectIds(db3.w, first_id..last_id)),
                              t3 \o <<"read_sql">>)]
        ELSE [h |-> c.h, db |-> db3, last |-> Return(call, NoOut, t3)]

\* "if not parameters or not filters: raise ValueError" (both backends)
UpdateRejectsAnd(parameters, filters) == parameters = EmptyMap /\ filters = EmptyMap
UpdateRejects(parameters, filters) == parameters = EmptyMap \/ filters = EmptyMap

\* "return None if not return_updated_rows else pd.DataFrame()"
SqliteUpdateNothingNone(ret) == NoOut
SqliteUpdateNothing(ret) == IF ~ret THEN NoOut ELSE DataFrame({})

\* SQLiteConnection.update
SqliteUpdate(h, db, table, parameters, filters, ret, fault, rbFail) ==
    LET call == [Call("update") EXCEPT !.table = table, !.parameters = parameters,
                                        !.filters = filters, !.ret = ret]
        c == SqliteConnectDb(h, "IMMEDIATE", fault)
        hit == Matching(db.w, filters)
        db2 == [db EXCEPT !.w = UpdateRows(db.w, parameters, filters)]
        \* UPDATE ... RETURNING *: the rows written, with their new values
        updated_rows == SelectIds(db2.w, hit)
        t2 == c.trace \o (IF ret THEN <<"execute", "fetch">> ELSE <<"execute">>)
        db3 == DbCommit(db2)
        t3 == t2 \o <<"commit">>
    IN  IF UpdateRejects(parameters, filters)
        THEN [h |-> h, db |-> db, last |-> Raise(call, "ValueError", "", <<>>)]
        ELSE IF ~ValidateIdentifiers({table}) \/ ~ValidateIdentifiers(DOMAIN parameters)
                \/ ~ValidateIdentifiers(DOMAIN filters)
        THEN [h |-> h, db |-> db, last |-> Raise(call, "ValueError", "", <<>>)]
        ELSE IF c.err
        THEN [h |-> c.h, db |-> db,
              last |-> Raise(call, "DatabaseError", "CONNECTION_ERROR", c.trace)]
        ELSE IF table # Users \/ fault = "execute"
        THEN SqliteFail(c.h, db, call, "UPDATE_ERROR", c.trace \o <<"execute">>, rbFail)
        ELSE IF fault = "commit"
        THEN SqliteFail(c.h, db2, call, "UPDATE_ERROR", t3, rbFail)
        ELSE IF ret /\ updated_rows # {} /\ fault = "post"
        THEN SqliteFail(c.h, db3, call, "UPDATE_ERROR", t3, rbFail)
        ELSE IF ret /\ updated_rows # {}
        THEN [h |-> c.h, db |-> db3, last |-> Return(call, DataFrame(updated_rows), t3)]
        ELSE [h |-> c.h, db |-> db3,
              last |-> Return(call, SqliteUpdateNothing(ret), t3)]

\* "if not filters: raise ValueError" (both backends)
DeleteRejects(filters) == filters = EmptyMap

\* SQLiteConnection.delete
SqliteDelete(h, db, table, filters, fault, rbFail) ==
    LET call == [Call("delete") EXCEPT !.table = table, !.filters = filters]
        c == SqliteConnectDb(h, "IMMEDIATE", fault)
        affected_rows == Cardinality(Matching(db.w, filters))
        db2 == [db EXCEPT !.w = DeleteRows(db.w, filters)]
        t2 == c.trace \o <<"execute">>
        t3 == t2 \o <<"commit">>
    IN  IF DeleteRejects(filters)
        THEN [h |-> h, db |-> db, last |-> Raise(call, "ValueError", "", <<>>)]
        ELSE IF ~ValidateIdentifiers({table}) \/ ~ValidateIdentifiers(DOMAIN filters)
        THEN [h |-> h, db |-> db, last |-> Raise(call, "ValueError", "", <<>>)]
        ELSE IF c.err
        THEN [h |-> c.h, db |-> db,
              last |-> Raise(call, "DatabaseError", "CONNECTION_ERROR", c.trace)]
        ELSE IF table # Users \/ fault = "execute"
        THEN SqliteFail(c.h, db, call, "DELETE_ERROR", t2, rbFail)
        ELSE IF fault = "commit"
        THEN SqliteFail(c.h, db2, call, "DELETE_ERROR", t3, rbFail)
        ELSE [h |-> c.h, db |-> DbCommit(db2), last |-> Return(call, IntOut(affected_rows), t3)]

\* what a statement passed to execute does to the working table
RunStatement(t, sql, auto) ==
    IF sql = "INSERT INTO u (age) VALUES (1)" THEN InsertOne(t, AgeCol :> 1, auto) ELSE t

\* SQLiteConnection.execute
SqliteExecute(h, db, sql, commit, fault, rbFail) ==
    LET call == [Call("execute") EXCEPT !.sql = sql, !.commit = commit]
        c == SqliteConnectDb(h, IF commit THEN "IMMEDIATE" ELSE "DEFERRED", fault)
        db2 == [db EXCEPT !.w = RunStatement(db.w, sql, autoinc)]
        t2 == c.trace \o <<"execute">>
        t3 == t2 \o <<"commit">>
    IN  IF c.err
        THEN [h |-> c.h, db |-> db,
              last |-> Raise(call, "DatabaseError", "CONNECTION_ERROR", c.trace)]
        ELSE IF sql = "BAD SQL" \/ fault = "execute"
        THEN IF commit THEN SqliteFail(c.h, db, call, "EXECUTE_SQL_ERROR", t2, rbFail)
             ELSE [h |-> c.h, db |-> db,
                   last |-> Raise(call, "DatabaseError", "EXECUTE_SQL_ERROR", t2)]
        ELSE IF commit /\ fault = "commit"
        THEN SqliteFail(c.h, db2, call, "EXECUTE_SQL_ERROR", t3, rbFail)
        ELSE IF commit
        THEN [h |-> c.h, db |-> DbCommit(db2), last |-> Return(call, CursorOut, t3)]
        ELSE [h |-> c.h, db |-> db2, last |-> Return(call, CursorOut, t2)]

\* SQLiteConnection.table_exists: _connect_db, then execute(commit=False)
\* of the sqlite_master query, then fetchone
SqliteTableExists(h, db, table, fault) ==
    LET call == [Call("table_exists") EXCEPT !.table = table]
        c == SqliteConnectDb(h, "DEFERRED", fault)
    IN  IF ~ValidateIdentifiers({table})
        THEN [h |-> h, db |-> db, last |-> Raise(call, "ValueError", "", <<>>)]
        ELSE IF c.err
        THEN [h |-> c.h, db |-> db,
              last |-> Raise(call, "DatabaseError", "CONNECTION_ERROR", c.trace)]
        ELSE IF fault = "execute"
        THEN [h |-> c.h, db |-> db,
              last |-> Raise(call, "DatabaseError", "EXECUTE_SQL_ERROR", c.trace \o <<"execute">>)]
        ELSE [h |-> c.h, db |-> db,
              last |-> Return(call, BoolOut(table = Users), c.trace \o <<"execute", "fetch">>)]

\* SQLiteConnection.get_table_info
SqliteGetTableInfo(h, db, table, fault) ==
    LET call == [Call("get_table_info") EXCEPT !.table = table]
        e == SqliteTableExists(h, db, table, fault)
    IN  IF ~ValidateIdentifiers({table})
        THEN [h |-> h, db |-> db, last |-> Raise(call, "ValueError", "", <<>>)]
        ELSE IF e.last.result # "ok"
        THEN [e EXCEPT !.last = Raise(call, e.last.result, e.last.code, e.last.trace)]
        ELSE IF e.last.out.n = 0
        THEN [e EXCEPT !.last = Raise(call, "DatabaseError", "TABLE_NOT_FOUND", e.last.trace)]
        ELSE IF fault = "post"
        THEN [e EXCEPT !.last = Raise(call, "DatabaseError", "TABLE_INFO_ERROR",
                                      e.last.trace \o <<"read_sql">>)]
        ELSE [e EXCEPT !.last = Return(call, DataFrame({<<1, 0>>, <<2, 0>>}),
                                       e.last.trace \o <<"read_sql">>)]

\* ------------------------------------------------------------------------
\* MySQLConnection.  Every operation runs on its own pooled connection
\* ("with self.db_engine.connect()"), which rolls back what was not
\* committed when the block is left.
\* ------------------------------------------------------------------------

\* "except Exception: self._rollback(); raise DatabaseError(code)"
MysqlFail(h, db, call, code, tr, rbFail) ==
    LET r == MysqlRollback(h, DbClose(db), rbFail)
    IN  [h |-> h, db |-> r.db,
         last |-> IF r.err THEN Raise(call, "DriverError", "", tr \o r.trace)
                  ELSE Raise(call, "DatabaseError", code, tr \o r.trace)]

\* MySQLConnection.select
MysqlSelect(h, db, table, columns, filters, limit, fault) ==
    LET call == [Call("select") EXCEPT !.table = table, !.columns = columns, !.filters = filters]
        c == MysqlConnectDb(h, fault)
    IN  IF ~ValidateIdentifiers({table}) \/ ~ValidateIdentifiers(Range(columns))
           \/ ~ValidateIdentifiers(DOMAIN filters)
        THEN [h |-> h, db |-> db, last |-> Raise(call, "ValueError", "", <<>>)]
        ELSE IF limit # NoLimit /\ limit < 0
        THEN [h |-> h, db |-> db, last |-> Raise(call, "ValueError", "", <<>>)]
        ELSE IF c.err
        THEN [h |-> c.h, db |-> db, last |-> Raise(call, "DatabaseError", "SELECT_ERROR", c.trace)]
        ELSE IF fault = "link"
        THEN [h |-> c.h, db |-> db,
              last |-> Raise(call, "DatabaseError", "SELECT_ERROR", c.trace \o <<"engine.connect">>)]
        ELSE IF table # Users \/ fault \in {"execute", "post"}
        THEN [h |-> c.h, db |-> db,
              last |-> Raise(call, "DatabaseError", "SELECT_ERROR",
                             c.trace \o <<"engine.connect", "read_sql">>)]
        ELSE [h |-> c.h, db |-> db,
              last |-> Return(call, DataFrame(LimitRows(SelectRows(db.c, filters), limit)),
                              c.trace \o <<"engine.connect", "read_sql">>)]

\* MySQLConnection.insert
MysqlInsert(h, db, table, rows, ret, fault, rbFail) ==
    LET call == [Call("insert") EXCEPT !.table = table, !.rows = rows, !.ret = ret]
        c == MysqlConnectDb(h, fault)
        echo == ret /\ PrimaryKeyColumn # <<>>
        t1 == c.trace \o <<"autoload">>
        ins == InsertMany(db.c, rows, autoinc)
        db2 == [db EXCEPT !.w = ins.t]
        t2 == t1 \o <<"engine.connect", "execute">>
        db3 == DbCommit(db2)
        t3 == t2 \o <<"commit">>
        \* results.lastrowid: the id the first row of the statement got
        first_id == RowId(db.c, rows[1], autoinc)
        inserted_ids == first_id..(first_id + Len(rows) - 1)
    IN  IF rows = <<>>
        THEN [h |-> h, db |-> db, last |-> Raise(call, "ValueError", "", <<>>)]
        ELSE IF ~ValidateIdentifiers({table}) \/ ~ValidateIdentifiers(KeysOf(rows))
        THEN [h |-> h, db |-> db, last |-> Raise(call, "ValueError", "", <<>>)]
        ELSE IF ~SameKeys(rows)
        THEN [h |-> h, db |-> db, last |-> Raise(call, "ValueError", "", <<>>)]
        ELSE IF c.err
        THEN [h |-> c.h, db |-> db,
              last |-> Raise(call, "DatabaseError", "CONNECTION_ERROR", c.trace)]
        ELSE IF table # Users \/ fault = "link"
        THEN MysqlFail(c.h, db, call, "INSERT_ERROR", t1, rbFail)
        ELSE IF fault = "execute" \/ ~ins.ok
        THEN MysqlFail(c.h, db, call, "INSERT_ERROR", t2, rbFail)
        ELSE IF fault = "commit"
        THEN MysqlFail(c.h, db, call, "INSERT_ERROR", t3, rbFail)
        ELSE IF echo /\ fault = "post"
        THEN MysqlFail(c.h, db3, call, "INSERT_ERROR", t3 \o <<"read_sql">>, rbFail)
        ELSE IF echo
        THEN [h |-> c.h, db |-> db3,
              last |-> Return(call, DataFrame(SelectIds(db3.c, inserted_ids)),
                              t3 \o <<"read_sql">>)]
        ELSE [h |-> c.h, db |-> db3, last |-> Return(call, NoOut, t3)]

\* MySQLConnection.update
MysqlUpdate(h, db, table, parameters, filters, ret, fault, rbFail) ==
    LET call == [Call("update") EXCEPT !.table = table, !.parameters = parameters,
                                        !.filters = filters, !.ret = ret]
        c == MysqlConnectDb(h, fault)
        t1 == c.trace \o <<"autoload">>
        \* results.rowcount: the rows the WHERE clause matched
        rowcount == Cardinality(Matching(db.c, filters))
        db2 == [db EXCEPT !.w = UpdateRows(db.c, parameters, filters)]
        t2 == t1 \o <<"engine.connect", "execute">>
        db3 == DbCommit(db2)
        t3 == t2 \o <<"commit">>
        \* df = self.select(table_name, ..., filters=filters), after the commit
        sel == MysqlSelect(c.h, db3, table, <<>>, filters, NoLimit, fault)
    IN  IF UpdateRejects(parameters, filters)
        THEN [h |-> h, db |-> db, last |-> Raise(call, "ValueError", "", <<>>)]
        ELSE IF ~ValidateIdentifiers({table}) \/ ~ValidateIdentifiers(DOMAIN parameters)
                \/ ~ValidateIdentifiers(DOMAIN filters)
        THEN [h |-> h, db |-> db, last |-> Raise(call, "ValueError", "", <<>>)]
        ELSE IF c.err
        THEN [h |-> c.h, db |-> db,
              last |-> Raise(call, "DatabaseError", "CONNECTION_ERROR", c.trace)]
        ELSE IF table # Users \/ fault = "link"
        THEN MysqlFail(c.h, db, call, "UPDATE_ERROR", t1, rbFail)
        ELSE IF fault = "execute"
        THEN MysqlFail(c.h, db, call, "UPDATE_ERROR", t2, rbFail)
        ELSE IF fault = "commit"
        THEN MysqlFail(c.h, db, call, "UPDATE_ERROR", t3, rbFail)
        ELSE IF ret /\ rowcount > 0 /\ sel.last.result # "ok"
        THEN MysqlFail(c.h, db3, call, "UPDATE_ERROR", t3 \o sel.last.trace, rbFail)
        ELSE IF ret /\ rowcount > 0
        THEN [h |-> c.h, db |-> db3, last |-> Return(call, sel.last.out, t3 \o sel.last.trace)]
        ELSE [h |-> c.h, db |-> db3, last |-> Return(call, NoOut, t3)]

\* MySQLConnection.delete
MysqlDelete(h, db, table, filters, fault, rbFail) ==
    LET call == [Call("delete") EXCEPT !.table = table, !.filters = filters]
        c == MysqlConnectDb(h, fault)
        t1 == c.trace \o <<"autoload">>
        affected_rows == Cardinality(Matching(db.c, filters))
        db2 == [db EXCEPT !.w = DeleteRows(db.c, filters)]
        t2 == t1 \o <<"engine.connect", "execute">>
        t3 == t2 \o <<"commit">>
    IN  IF DeleteRejects(filters)
        THEN [h |-> h, db |-> db, last |-> Raise(call, "ValueError", "", <<>>)]
        ELSE IF ~ValidateIdentifiers({table}) \/ ~ValidateIdentifiers(DOMAIN filters)
        THEN [h |-> h, db |-> db, last |-> Raise(call, "ValueError", "", <<>>)]
        ELSE IF c.err
        THEN [h |-> c.h, db |-> db,
              last |-> Raise(call, "DatabaseError", "CONNECTION_ERROR", c.trace)]
        ELSE IF table # Users \/ fault = "link"
        THEN MysqlFail(c.h, db, call, "DELETE_ERROR", t1, rbFail)
        ELSE IF fault = "execute"
        THEN MysqlFail(c.h, db, call, "DELETE_ERROR", t2, rbFail)
        ELSE IF fault = "commit"
        THEN MysqlFail(c.h, db, call, "DELETE_ERROR", t3, rbFail)
        ELSE [h |-> c.h, db |-> DbCommit(db2), last |-> Return(call, IntOut(affected_rows), t3)]

\* MySQLConnection.execute
MysqlExecute(h, db, sql, commit, fault, rbFail) ==
    LET call == [Call("execute") EXCEPT !.sql = sql, !.commit = commit]
        c == MysqlConnectDb(h, fault)
        db2 == [db EXCEPT !.w = RunStatement(db.c, sql, autoinc)]
        t1 == c.trace \o <<"engine.connect">>
        t2 == t1 \o <<"execute">>
        t3 == t2 \o <<"commit">>
        tr == IF fault = "link" THEN t1 ELSE IF fault = "commit" THEN t3 ELSE t2
    IN  IF c.err
        THEN [h |-> c.h, db |-> db,
              last |-> Raise(call, "DatabaseError", "CONNECTION_ERROR", c.trace)]
        ELSE IF fault = "link" \/ sql = "BAD SQL" \/ fault = "execute" \/ (commit /\ fault = "commit")
        THEN IF commit THEN MysqlFail(c.h, db, call, "EXECUTE_SQL_ERROR", tr, rbFail)
             ELSE [h |-> c.h, db |-> DbClose(db),
                   last |-> Raise(call, "DatabaseError", "EXECUTE_SQL_ERROR", tr)]
        ELSE IF commit
        THEN [h |-> c.h, db |-> DbCommit(db2), last |-> Return(call, CursorOut, t3)]
        ELSE [h |-> c.h, db |-> DbClose(db2), last |-> Return(call, CursorOut, t2)]

\* MySQLConnection.table_exists
MysqlTableExists(h, db, table, fault) ==
    LET call == [Call("table_exists") EXCEPT !.table = table]
        c == MysqlConnectDb(h, fault)
    IN  IF ~ValidateIdentifiers({table})
        THEN [h |-> h, db |-> db, last |-> Raise(call, "ValueError", "", <<>>)]
        ELSE IF c.err
        THEN [h |-> c.h, db |-> db,
              last |-> Raise(call, "DatabaseError", "TABLE_EXISTS_ERROR", c.trace)]
        ELSE IF fault = "link"
        THEN [h |-> c.h, db |-> db,
              last |-> Raise(call, "DatabaseError", "TABLE_EXISTS_ERROR",
                             c.trace \o <<"engine.connect">>)]
        ELSE IF fault = "execute"
        THEN [h |-> c.h, db |-> db,
              last |-> Raise(call, "DatabaseError", "TABLE_EXISTS_ERROR",
                             c.trace \o <<"engine.connect", "read_sql">>)]
        ELSE [h |-> c.h, db |-> db,
              last |-> Return(call, BoolOut(table = Users),
                              c.trace \o <<"engine.connect", "read_sql">>)]

\* MySQLConnection.get_table_info
MysqlGetTableInfo(h, db, table, fault) ==
    LET call == [Call("get_table_info") EXCEPT !.table = table]
        e == MysqlTableExists(h, db, table, fault)
    IN  IF ~ValidateIdentifiers({table})
        THEN [h |-> h, db |-> db, last |-> Raise(call, "ValueError", "", <<>>)]
        ELSE IF e.last.result # "ok"
        THEN [e EXCEPT !.last = Raise(call, e.last.result, e.last.code, e.last.trace)]
        ELSE IF e.last.out.n = 0
        THEN [e EXCEPT !.last = Raise(call, "DatabaseError", "TABLE_NOT_FOUND", e.last.trace)]
        ELSE IF fault = "post"
        THEN [e EXCEPT !.last = Raise(call, "DatabaseError", "TABLE_INFO_ERROR",
                                      e.last.trace \o <<"engine.connect", "read_sql">>)]
        ELSE [e EXCEPT !.last = Return(call, DataFrame({<<1, 0>>, <<2, 0>>}),
                                       e.last.trace \o <<"engine.connect", "read_sql">>)]

\* ------------------------------------------------------------------------
\* The calls as actions
\* ------------------------------------------------------------------------
\* The argument tuples the calls are tried with.  Driver faults are combined
\* with the arguments that reach the driver; arguments that are rejected or
\* that vary only the WHERE clause are tried on a driver that works.
NoFault == <<"none", FALSE>>
RowLists == RowListsUpTo(MaxRows)

SelectArgs ==
    [table : TableNames, columns : ColumnLists, filters : FilterSet,
     limit : {NoLimit}, fault : {"none"}]
    \cup [table : {Users}, columns : {<<>>}, filters : {EmptyMap},
          limit : Limits, fault : Faults]

InsertArgs ==
    [table : TableNames, rows : RowLists, ret : {TRUE}, fc : {NoFault}]
    \cup [table : {Users}, rows : RowLists, ret : {FALSE}, fc : {NoFault}]
    \cup [table : {Users}, rows : {<<AgeCol :> 1>>, <<AgeCol :> 1, AgeCol :> NULL>>},
          ret : BOOLEAN, fc : FaultCases]

UpdateArgs ==
    [table : TableNames, parameters : ParameterSet, filters : FilterSet,
     ret : {TRUE}, fc : {NoFault}]
    \cup [table : {Users}, parameters : ParameterSet, filters : FilterSet,
          ret : {FALSE}, fc : {NoFault}]
    \cup [table : {Users}, parameters : {AgeCol :> 2}, filters : {IdCol :> 1, AgeCol :> 1},
          ret : BOOLEAN, fc : FaultCases]

DeleteArgs ==
    [table : TableNames, filters : FilterSet, fc : {NoFault}]
    \cup [table : {Users}, filters : {IdCol :> 1, AgeCol :> 1}, fc : FaultCases]

ExecuteArgs ==
    [sql : Statements, commit : BOOLEAN, fc : {NoFault}]
    \cup [sql : {"INSERT INTO u (age) VALUES (1)"}, commit : BOOLEAN, fc : FaultCases]

TableArgs ==
    [table : TableNames, fault : {"none"}] \cup [table : {Users}, fault : Faults]

Select ==
    \E a \in SelectArgs :
        /\ Idle
        /\ Apply(IF backend = "sqlite"
                 THEN SqliteSelect(H, Db, a.table, a.columns, a.filters, a.limit, a.fault)
                 ELSE MysqlSelect(H, Db, a.table, a.columns, a.filters, a.limit, a.fault), a.fault)
        /\ UNCHANGED <<config, scope, ident, factory, retry, temp, logging, waiting, frames>>

Insert ==
    \E a \in InsertArgs :
        /\ Idle
        /\ InsertFits(working, a.rows, autoinc)
        /\ Apply(IF backend = "sqlite"
                 THEN SqliteInsert(H, Db, a.table, a.rows, a.ret, a.fc[1], a.fc[2])
                 ELSE MysqlInsert(H, Db, a.table, a.rows, a.ret, a.fc[1], a.fc[2]), a.fc[1])
        /\ UNCHANGED <<config, scope, ident, factory, retry, temp, logging, waiting, frames>>

Update ==
    \E a \in UpdateArgs :
        /\ Idle
        /\ Apply(IF backend = "sqlite"
                 THEN SqliteUpdate(H, Db, a.table, a.parameters, a.filters, a.ret, a.fc[1], a.fc[2])
                 ELSE MysqlUpdate(H, Db, a.table, a.parameters, a.filters, a.ret, a.fc[1], a.fc[2]), a.fc[1])
        /\ UNCHANGED <<config, scope, ident, factory, retry, temp, logging, waiting, frames>>

Delete ==
    \E a \in DeleteArgs :
        /\ Idle
        /\ Apply(IF backend = "sqlite"
                 THEN SqliteDelete(H, Db, a.table, a.filters, a.fc[1], a.fc[2])
                 ELSE MysqlDelete(H, Db, a.table, a.filters, a.fc[1], a.fc[2]), a.fc[1])
        /\ UNCHANGED <<config, scope, ident, factory, retry, temp, logging, waiting, frames>>

Execute ==
    \E a \in ExecuteArgs :
        /\ Idle
        /\ NextRowId(working, autoinc) <= MaxId
        /\ Apply(IF backend = "sqlite"
                 THEN SqliteExecute(H, Db, a.sql, a.commit, a.fc[1], a.fc[2])
                 ELSE MysqlExecute(H, Db, a.sql, a.commit, a.fc[1], a.fc[2]), a.fc[1])
        /\ UNCHANGED <<config, scope, ident, factory, retry, temp, logging, waiting, frames>>

TableExists ==
    \E a \in TableArgs :
        /\ Idle
        /\ Apply(IF backend = "sqlite"
                 THEN SqliteTableExists(H, Db, a.table, a.fault)
                 ELSE MysqlTableExists(H, Db, a.table, a.fault), a.fault)
        /\ UNCHANGED <<config, scope, ident, factory, retry, temp, logging, waiting, frames>>

GetTableInfo ==
    \E a \in TableArgs \cup [table : {Users}, fault : {"post"}] :
        /\ Idle
        /\ Apply(IF backend = "sqlite"
                 THEN SqliteGetTableInfo(H, Db, a.table, a.fault)
                 ELSE MysqlGetTableInfo(H, Db, a.table, a.fault), a.fault)
        /\ UNCHANGED <<config, scope, ident, factory, retry, temp, logging, waiting, frames>>

\* ------------------------------------------------------------------------
\* DatabaseFactory: the registry of connector classes
\* ------------------------------------------------------------------------
SQLiteConnection == "SQLiteConnection"
MySQLConnection == "MySQLConnection"
CustomDBConnection == "CustomDBConnection"     \* a DatabaseConnection subclass
NotAConnection == "str"                        \* a class that is not one

ConnectorClasses == {SQLiteConnection, MySQLConnection, CustomDBConnection, NotAConnection}

\* issubclass(connector_class, DatabaseConnection)
IsSubclass(cls) == cls \in {SQLiteConnection, MySQLConnection, CustomDBConnection}

\* the kinds the calls are tried with (dictionary keys are case-sensitive)
Kinds == {"sqlite", "mysql", "mongodb", "redis", "SQLite"}

\* _CONNECTORS as the class attribute defines it; a dict keeps insertion order
BuiltinConnectors ==
    <<[kind |-> "sqlite", cls |-> SQLiteConnection], [kind |-> "mysql", cls |-> MySQLConnection]>>

\* "db_type in cls._CONNECTORS"
Contains(reg, kind) == \E i \in DOMAIN reg : reg[i].kind = kind

\* cls._CONNECTORS[db_type]
Lookup(reg, kind) == reg[CHOOSE i \in DOMAIN reg : reg[i].kind = kind].cls

\* list(cls._CONNECTORS.keys())
GetSupportedTypes(reg) == [i \in DOMAIN reg |-> reg[i].kind]

IsSupportedBuiltin(reg, kind) == kind \in {"sqlite", "mysql"}
IsSupported(reg, kind) == Contains(reg, kind)

\* the object a connector class constructs: its handle fields are None
Connection(cls) ==
    [class |-> cls, db_connection |-> "None", db_cursor |-> "None", db_engine |-> "None"]

NoConnection == Connection("None")

\* a call on the factory; every field a call does not use keeps its default
FCall(op) ==
    [op |-> op, kind |-> "", cls |-> "", result |-> "ok", supported |-> <<>>,
     conn |-> NoConnection, types |-> <<>>, flag |-> FALSE]

\* DatabaseFactory.create_connection; params_ok: the keyword arguments are
\* the ones the constructor takes (else it raises TypeError)
CreateConnection(reg, kind, params_ok) ==
    LET call == [FCall("create_connection") EXCEPT !.kind = kind]
    IN  IF ~Contains(reg, kind)
        THEN [reg |-> reg,
              call |-> [call EXCEPT !.result = "ValueError", !.supported = GetSupportedTypes(reg)]]
        ELSE IF ~params_ok
        THEN [reg |-> reg, call |-> [call EXCEPT !.result = "TypeError"]]
        ELSE [reg |-> reg, call |-> [call EXCEPT !.conn = Connection(Lookup(reg, kind))]]

\* DatabaseFactory.register_connector
RegisterConnectorOverwrites(reg, kind, cls) ==
    LET call == [FCall("register_connector") EXCEPT !.kind = kind, !.cls = cls]
        entry == [kind |-> kind, cls |-> cls]
    IN  IF ~IsSubclass(cls)
        THEN [reg |-> reg, call |-> [call EXCEPT !.result = "TypeError"]]
        ELSE IF Contains(reg, kind)
        THEN [reg |-> [i \in DOMAIN reg |-> IF reg[i].kind = kind THEN entry ELSE reg[i]],
              call |-> call]
        ELSE [reg |-> Append(reg, entry), call |-> call]
RegisterConnector(reg, kind, cls) ==
    LET call == [FCall("register_connector") EXCEPT !.kind = kind, !.cls = cls]
    IN  IF Contains(reg, kind)
        THEN [reg |-> reg, call |-> [call EXCEPT !.result = "ValueError"]]
        ELSE IF ~IsSubclass(cls)
        THEN [reg |-> reg, call |-> [call EXCEPT !.result = "TypeError"]]
        ELSE [reg |-> Append(reg, [kind |-> kind, cls |-> cls]), call |-> call]

FactoryParked ==
    /\ CONNECTORS = BuiltinConnectors
    /\ fcall = FCall("idle")

FactoryCreate ==
    \E kind \in Kinds, params_ok \in BOOLEAN :
        LET o == CreateConnection(CONNECTORS, kind, params_ok)
        IN  /\ CONNECTORS' = o.reg
            /\ fcall' = o.call
            /\ UNCHANGED <<config, handle, committed, working, scope, last, ident, retry, temp, logging, waiting, frames>>

FactoryRegister ==
    \E kind \in Kinds, cls \in ConnectorClasses :
        LET o == RegisterConnector(CONNECTORS, kind, cls)
        IN  /\ CONNECTORS' = o.reg
            /\ fcall' = o.call
            /\ UNCHANGED <<config, handle, committed, working, scope, last, ident, retry, temp, logging, waiting, frames>>

FactoryGetSupportedTypes ==
    /\ fcall' = [FCall("get_supported_types") EXCEPT !.types = GetSupportedTypes(CONNECTORS)]
    /\ UNCHANGED <<CONNECTORS, config, handle, committed, working, scope, last, ident, retry, temp, logging, waiting, frames>>

FactoryIsSupported ==
    \E kind \in Kinds :
        /\ fcall' = [FCall("is_supported") EXCEPT !.kind = kind,
                                                  !.flag = IsSupported(CONNECTORS, kind)]
        /\ UNCHANGED <<CONNECTORS, config, handle, committed, working, scope, last, ident, retry, temp, logging, waiting, frames>>

\* ------------------------------------------------------------------------
\* retry_request
\* ------------------------------------------------------------------------
MaxAttempts == 3

MethodsValid == {"GET", "POST", "PUT", "DELETE", "PATCH", "HEAD", "OPTIONS"}
Methods == {"GET", "FETCH"}
RetryDelays == {0, 30}
Statuses == {199, 200, 299, 300, 404, 500}
Bodies == {"a", "b"}

\* "200 <= status_code < 300"
Is2xxUpTo300(status) == 200 <= status /\ status <= 300
Is2xx(status) == 200 <= status /\ status < 300

\* what requests.request does: it answers with a status and a body, or it
\* raises (Timeout, ConnectionError)
Responses ==
    [error : {""}, status : {st \in Statuses : Is2xx(st)}, body : Bodies]
    \cup [error : {""}, status : {st \in Statuses : ~Is2xx(st)}, body : {"a"}]
    \cup [error : {"REQUEST_TIMEOUT", "REQUEST_CONNECTION_ERROR"}, status : {0}, body : {""}]

Raised(kind, code) == [kind |-> kind, code |-> code, status |-> 0, body |-> ""]
Answer(status, body) == [kind |-> "ok", code |-> "", status |-> status, body |-> body]
NoResult == Raised("None", "")

\* request(method, url, raise_for_status=..., ...)
Request(m, rfs, resp) ==
    IF m \notin MethodsValid THEN Raised("ValueError", "")
    ELSE IF resp.error # "" THEN Raised("ExternalServiceError", resp.error)
    ELSE IF rfs /\ ~Is2xx(resp.status) THEN Raised("ExternalServiceError", "HTTP_STATUS_ERROR")
    ELSE Answer(resp.status, resp.body)

\* "if attempt < max_attempts - 1": a sleep follows this attempt
SleepsAfterEvery(a, m) == a < m
SleepsAfter(a, m) == a < m - 1

RetryParked ==
    /\ method = "GET"
    /\ max_attempts = 0
    /\ retry_delay = 0
    /\ raise_for_status = FALSE
    /\ attempt = 0
    /\ pc = "idle"
    /\ log = <<>>
    /\ slept = <<>>
    /\ retry_result = NoResult

\* one pass through the loop body up to the sleep: the request, the test of
\* its status, the except clause
RetryAttempt ==
    \E resp \in Responses :
        LET r == Request(method, raise_for_status, resp)
        IN  /\ pc = "loop"
            /\ attempt < max_attempts
            /\ log' = Append(log, r)
            /\ IF r.kind = "ok" /\ Is2xx(r.status)
               THEN pc' = "returned" /\ retry_result' = r /\ UNCHANGED attempt
               ELSE IF r.kind # "ok" /\ r.kind # "ExternalServiceError"
               THEN pc' = "raised" /\ retry_result' = r /\ UNCHANGED attempt
               ELSE IF SleepsAfter(attempt, max_attempts)
               THEN pc' = "sleep" /\ UNCHANGED <<attempt, retry_result>>
               ELSE pc' = "loop" /\ attempt' = attempt + 1 /\ UNCHANGED retry_result
            /\ UNCHANGED <<retry_args, slept>>
            /\ UNCHANGED <<config, handle, committed, working, scope, last, ident, factory, temp, logging, waiting, frames>>

\* sleep(retry_delay), then the next iteration
RetrySleep ==
    /\ pc = "sleep"
    /\ slept' = Append(slept, retry_delay)
    /\ attempt' = attempt + 1
    /\ pc' = "loop"
    /\ UNCHANGED <<retry_args, log, retry_result>>
    /\ UNCHANGED <<config, handle, committed, working, scope, last, ident, factory, temp, logging, waiting, frames>>

\* the loop is over: raise ExternalServiceError(REQUEST_MAX_RETRIES_EXCEEDED)
RetryExhausted ==
    /\ pc = "loop"
    /\ attempt >= max_attempts
    /\ pc' = "raised"
    /\ retry_result' = Raised("ExternalServiceError", "REQUEST_MAX_RETRIES_EXCEEDED")
    /\ UNCHANGED <<retry_args, attempt, log, slept>>
    /\ UNCHANGED <<config, handle, committed, working, scope, last, ident, factory, temp, logging, waiting, frames>>

\* ------------------------------------------------------------------------
\* generate_temp_file: the temporary directory and the calls on it
\* ------------------------------------------------------------------------
MaxCalls == 3          \* calls of generate_temp_file begun in one behaviour
SafetyLimit == 1000    \* "while counter < 1000"

Callers == {1, 2}
Stems == {"a", "b", "uuid"}

\* temp_dir / filename: File(s, 0) is "<s>.txt", File(s, n) is "<s>_<n>.txt"
File(s, n) == [stem |-> s, n |-> n]
NoPath == File("", 0)

\* the directory: for every stem, the numbers n whose File(stem, n) exists
NoFiles == [s \in Stems |-> {}]
Exists(fs, p) == p.n \in fs[p.stem]
Create(fs, p) == [fs EXCEPT ![p.stem] = @ \cup {p.n}]

\* the arguments of a call
Filenames == {"None", "a", "a.txt", "b.txt"}
Extensions == {"None", "txt"}

\* lines 92-103: the name the call asks for, "" when it raises ValueError
RequestedStem(filename, extension) ==
    IF filename = "None"
    THEN IF extension = "None" THEN "" ELSE "uuid"
    ELSE IF filename = "a"
         THEN IF extension = "None" THEN "" ELSE "a"
         ELSE IF filename = "a.txt" THEN "a" ELSE "b"

\* temp_path.touch(exist_ok=False): it creates the file, or the file exists
\* and it raises FileExistsError
TouchCreatesAlways(fs, p) == TRUE
TouchCreates(fs, p) == ~Exists(fs, p)

\* "while counter < 1000"
LoopGoesOn(counter) == counter < SafetyLimit

NoCall ==
    [pc |-> "idle", stem |-> "", unique |-> FALSE, counter |-> 0, taken |-> FALSE,
     before |-> NoFiles, made |-> {}, result |-> "None", path |-> NoPath]

TempParked ==
    /\ files = NoFiles
    /\ gen = [c \in Callers |-> NoCall]
    /\ started = 0
    /\ handed = <<>>

\* the call and its argument handling (lines 90-105)
GenerateTempFile(c) ==
    \E filename \in Filenames, extension \in Extensions, unique \in BOOLEAN :
        LET s == RequestedStem(filename, extension)
            call == [NoCall EXCEPT !.stem = s, !.unique = unique, !.before = files]
        IN  /\ gen[c].pc \in {"idle", "returned", "raised"}
            /\ started < MaxCalls
            /\ started' = started + 1
            /\ gen' = [gen EXCEPT ![c] =
                          IF s = ""
                          THEN [call EXCEPT !.pc = "raised", !.result = "ValueError"]
                          ELSE [call EXCEPT !.pc = "touch"]]
            /\ UNCHANGED <<files, handed>>
            /\ UNCHANGED <<config, handle, committed, working, scope, last, ident, factory, retry, logging, waiting, frames>>

\* the first touch and its except clause (lines 108-119)
TouchRequested(c) ==
    LET g == gen[c]
        p == File(g.stem, 0)
    IN  /\ g.pc = "touch"
        /\ IF TouchCreates(files, p)
           THEN /\ files' = Create(files, p)
                /\ handed' = Append(handed, p)
                /\ gen' = [gen EXCEPT ![c] = [g EXCEPT !.pc = "returned", !.result = "Path",
                                                       !.path = p, !.made = g.made \cup {p}]]
           ELSE /\ UNCHANGED <<files, handed>>
                /\ gen' = [gen EXCEPT ![c] =
                              IF ~g.unique
                              THEN [g EXCEPT !.pc = "raised", !.result = "FileExistsError",
                                             !.taken = TRUE]
                              ELSE [g EXCEPT !.pc = "loop", !.counter = 1, !.taken = TRUE]]
        /\ UNCHANGED started
        /\ UNCHANGED <<config, handle, committed, working, scope, last, ident, factory, retry, logging, waiting, frames>>

\* one pass through the loop body (lines 121-130)
TouchNumbered(c) ==
    LET g == gen[c]
        p == File(g.stem, g.counter)
    IN  /\ g.pc = "loop"
        /\ LoopGoesOn(g.counter)
        /\ IF TouchCreates(files, p)
           THEN /\ files' = Create(files, p)
                /\ handed' = Append(handed, p)
                /\ gen' = [gen EXCEPT ![c] = [g EXCEPT !.pc = "returned", !.result = "Path",
                                                       !.path = p, !.made = g.made \cup {p}]]
           ELSE /\ UNCHANGED <<files, handed>>
                /\ gen' = [gen EXCEPT ![c] = [g EXCEPT !.counter = g.counter + 1]]
        /\ UNCHANGED started
        /\ UNCHANGED <<config, handle, committed, working, scope, last, ident, factory, retry, logging, waiting, frames>>

\* the loop is over: raise RuntimeError (line 132)
GiveUp(c) ==
    LET g == gen[c]
    IN  /\ g.pc = "loop"
        /\ ~LoopGoesOn(g.counter)
        /\ gen' = [gen EXCEPT ![c] = [g EXCEPT !.pc = "raised", !.result = "RuntimeError"]]
        /\ UNCHANGED <<files, started, handed>>
        /\ UNCHANGED <<config, handle, committed, working, scope, last, ident, factory, retry, logging, waiting, frames>>

\* ------------------------------------------------------------------------
\* Logging setup (src/log/logger.py): threads calling setup_logging and
\* get_logger
\* ------------------------------------------------------------------------
MaxLogCalls == 3       \* calls of setup_logging and get_logger begun in one behaviour

Threads == {1, 2}
Unlocked == 0
ConfigTypes == {"json", "detailed", "xml"}
ValidConfigTypes == {"detailed", "json"}
\* what can go wrong between taking the lock and dictConfig returning
SetupFaults == {"none", "FileNotFoundError", "ValueError", "OSError", "dictConfig"}

NoLogCall ==
    [pc |-> "idle", op |-> "None", type |-> "json", name_ok |-> TRUE, result |-> "None",
     configured_it |-> FALSE, configured_at_end |-> FALSE]

LogParked ==
    /\ logging_configured = FALSE
    /\ config_lock = Unlocked
    /\ thread = [t \in Threads |-> NoLogCall]
    /\ dict_config = [calls |-> 0, applied |-> 0]
    /\ log_calls = 0

\* a call that ends here, returning or raising `result`
Finish(t, result) ==
    [thread[t] EXCEPT !.pc = "done", !.result = result,
                      !.configured_at_end = logging_configured]

\* a thread calls setup_logging(type_file_logging, name_file_log)
SetupLoggingCall(t) ==
    \E type \in ConfigTypes, name_ok \in BOOLEAN :
        /\ thread[t].pc \in {"idle", "done"}
        /\ log_calls < MaxLogCalls
        /\ log_calls' = log_calls + 1
        /\ thread' = [thread EXCEPT ![t] =
                         [NoLogCall EXCEPT !.pc = "check", !.op = "setup_logging",
                                           !.type = type, !.name_ok = name_ok]]
        /\ UNCHANGED <<logging_configured, config_lock, dict_config, waiting, frames>>
        /\ UNCHANGED <<config, handle, committed, working, scope, last, ident, factory, retry, temp, waiting, frames>>

\* setup_logging: "if _logging_configured: raise RuntimeError" (lines 119-120)
SetupLoggingCheck(t) ==
    /\ thread[t].pc = "check"
    /\ thread' = [thread EXCEPT ![t] =
                     IF logging_configured
                     THEN Finish(t, "RuntimeError")
                     ELSE [@ EXCEPT !.pc = "validate"]]
    /\ UNCHANGED <<logging_configured, config_lock, dict_config, log_calls, waiting, frames>>
    /\ UNCHANGED <<config, handle, committed, working, scope, last, ident, factory, retry, temp, waiting, frames>>

\* a thread calls get_logger(name): lines 150-158
GetLoggerCall(t) ==
    \E name \in {"str", "empty", "int"} :
        /\ thread[t].pc \in {"idle", "done"}
        /\ log_calls < MaxLogCalls
        /\ log_calls' = log_calls + 1
        /\ thread' = [thread EXCEPT ![t] =
                         LET call == [NoLogCall EXCEPT !.op = "get_logger"]
                         IN  IF name = "int"
                             THEN [call EXCEPT !.pc = "done", !.result = "TypeError",
                                               !.configured_at_end = logging_configured]
                             ELSE IF name = "empty"
                             THEN [call EXCEPT !.pc = "done", !.result = "ValueError",
                                               !.configured_at_end = logging_configured]
                             ELSE IF ~logging_configured
                             THEN [call EXCEPT !.pc = "validate"]
                             ELSE [call EXCEPT !.pc = "getLogger"]]
        /\ UNCHANGED <<logging_configured, config_lock, dict_config, waiting, frames>>
        /\ UNCHANGED <<config, handle, committed, working, scope, last, ident, factory, retry, temp, waiting, frames>>

\* _setup_logging: the checks of its arguments (lines 38-42)
SetupValidate(t) ==
    /\ thread[t].pc = "validate"
    /\ thread' = [thread EXCEPT ![t] =
                     IF @.type \notin ValidConfigTypes \/ ~@.name_ok
                     THEN Finish(t, "ValueError")
                     ELSE [@ EXCEPT !.pc = "lock"]]
    /\ UNCHANGED <<logging_configured, config_lock, dict_config, log_calls, waiting, frames>>
    /\ UNCHANGED <<config, handle, committed, working, scope, last, ident, factory, retry, temp, waiting, frames>>

\* what a call does when _setup_logging returns None
AfterSetup(t) ==
    IF thread[t].op = "get_logger"
    THEN [thread[t] EXCEPT !.pc = "getLogger"]
    ELSE Finish(t, "returned")

\* "if _logging_configured: return", read with the lock held
ConfiguredUnderLockNotRead(configured) == FALSE
ConfiguredUnderLock(configured) == configured

\* "with _config_lock: if _logging_configured: return" (lines 46-48)
SetupAcquire(t) ==
    /\ thread[t].pc = "lock"
    /\ config_lock = Unlocked
    /\ IF ConfiguredUnderLock(logging_configured)
       THEN /\ thread' = [thread EXCEPT ![t] = AfterSetup(t)]
            /\ UNCHANGED config_lock
       ELSE /\ thread' = [thread EXCEPT ![t].pc = "apply"]
            /\ config_lock' = t
    /\ UNCHANGED <<logging_configured, dict_config, log_calls, waiting, frames>>
    /\ UNCHANGED <<config, handle, committed, working, scope, last, ident, factory, retry, temp, waiting, frames>>

\* lines 50-97: read the configuration file, make the directory, dictConfig;
\* an exception leaves the with block and releases the lock
SetupApply(t) ==
    \E fault \in SetupFaults :
        /\ thread[t].pc = "apply"
        /\ IF fault = "none"
           THEN /\ dict_config' = [calls |-> dict_config.calls + 1,
                                   applied |-> dict_config.applied + 1]
                /\ thread' = [thread EXCEPT ![t].pc = "flag"]
                /\ UNCHANGED config_lock
           ELSE /\ dict_config' = [dict_config EXCEPT !.calls =
                                      IF fault = "dictConfig" THEN @ + 1 ELSE @]
                /\ thread' = [thread EXCEPT ![t] =
                                 Finish(t, IF fault = "dictConfig" THEN "ValueError" ELSE fault)]
                /\ config_lock' = Unlocked
        /\ UNCHANGED <<logging_configured, log_calls, waiting, frames>>
        /\ UNCHANGED <<config, handle, committed, working, scope, last, ident, factory, retry, temp, waiting, frames>>

\* "_logging_configured = True" and the end of the with block (line 99)
SetupSetFlag(t) ==
    /\ thread[t].pc = "flag"
    /\ logging_configured' = TRUE
    /\ config_lock' = Unlocked
    /\ thread' = [thread EXCEPT ![t] =
                     IF @.op = "get_logger"
                     THEN [@ EXCEPT !.pc = "getLogger", !.configured_it = TRUE]
                     ELSE [@ EXCEPT !.pc = "done", !.result = "returned",
                                    !.configured_it = TRUE, !.configured_at_end = TRUE]]
    /\ UNCHANGED <<dict_config, log_calls, waiting, frames>>
    /\ UNCHANGED <<config, handle, committed, working, scope, last, ident, factory, retry, temp, waiting, frames>>

\* "return logging.getLogger(name)" (line 160)
GetLoggerReturn(t) ==
    /\ thread[t].pc = "getLogger"
    /\ thread' = [thread EXCEPT ![t] = Finish(t, "returned")]
    /\ UNCHANGED <<logging_configured, config_lock, dict_config, log_calls, waiting, frames>>
    /\ UNCHANGED <<config, handle, committed, working, scope, last, ident, factory, retry, temp, waiting, frames>>

\* ------------------------------------------------------------------------
\* wait_for_files (src/file/operations.py) and the directory it polls
\* ------------------------------------------------------------------------
MaxTime == 6           \* the clock stops here

Wanted == {"a.txt", "b.txt"}
Others == {"other.log"}
FilesLists == {<<>>, <<"a.txt">>, <<"a.txt", "b.txt">>}
Timeouts == {0, 2}
TimesBetweenChecks == {1, 2}

\* find_object_in_directory(directory_path, name_pattern=stem,
\* file_extension=suffix): the objects found, or the exception raised
FindObjectInDirectory(dir, file) ==
    IF dir = {}
    THEN [error |-> "FileNotFoundError", found |-> <<>>]
    ELSE [error |-> "None", found |-> IF file \in dir THEN <<file>> ELSE <<>>]

\* "for index in sorted(found_indices, reverse=True): del pending_files_list[index]"
RECURSIVE DeleteIndices(_, _)
DeleteIndices(list, indices) ==
    IF list = <<>> THEN <<>>
    ELSE LET front == DeleteIndices(SubSeq(list, 1, Len(list) - 1), indices)
         IN  IF Len(list) \in indices THEN front ELSE Append(front, list[Len(list)])

NoWait ==
    [pc |-> "idle", files_list |-> <<>>, timeout |-> 0, time_between_checks |-> 1,
     start_time |-> 0, pending_files_list |-> <<>>, found_files_list |-> <<>>,
     found_indices |-> {}, i |-> 1, rounds |-> 0, result |-> "None"]

WaitParked ==
    /\ directory = {}
    /\ now = 0
    /\ wait = NoWait

\* the call up to the first round (lines 301-309)
WaitForFiles ==
    \E files_list \in FilesLists, timeout \in Timeouts, tbc \in TimesBetweenChecks :
        /\ wait.pc = "idle"
        /\ wait' = [NoWait EXCEPT !.pc = "check", !.files_list = files_list,
                                  !.timeout = timeout, !.time_between_checks = tbc,
                                  !.start_time = now, !.pending_files_list = files_list]
        /\ UNCHANGED <<directory, now>>
        /\ UNCHANGED <<config, handle, committed, working, scope, last, ident, factory, retry, temp, logging, frames>>

\* one pass through the for loop (lines 312-327)
CheckFile ==
    LET file == wait.pending_files_list[wait.i]
        r == FindObjectInDirectory(directory, file)
    IN  /\ wait.pc = "check"
        /\ wait.i <= Len(wait.pending_files_list)
        /\ wait' = IF r.error # "None"
                   THEN [wait EXCEPT !.pc = "raised", !.result = r.error]
                   ELSE IF r.found # <<>>
                   THEN [wait EXCEPT !.found_files_list = Append(@, r.found[1]),
                                     !.found_indices = @ \cup {wait.i},
                                     !.i = @ + 1]
                   ELSE [wait EXCEPT !.i = @ + 1]
        /\ UNCHANGED <<directory, now>>
        /\ UNCHANGED <<config, handle, committed, working, scope, last, ident, factory, retry, temp, logging, frames>>

\* "(current_time - start_time).total_seconds() > timeout"
TimedOut(elapsed, timeout) == elapsed > timeout

\* the end of a round (lines 329-347): return, raise TimeoutError or go to sleep
EndRound ==
    LET pending == DeleteIndices(wait.pending_files_list, wait.found_indices)
        w == [wait EXCEPT !.pending_files_list = pending, !.found_indices = {},
                          !.rounds = @ + 1]
    IN  /\ wait.pc = "check"
        /\ wait.i > Len(wait.pending_files_list)
        /\ wait' = IF Len(wait.found_files_list) = Len(wait.files_list)
                   THEN [w EXCEPT !.pc = "returned", !.result = "list"]
                   ELSE IF TimedOut(now - wait.start_time, wait.timeout)
                   THEN [w EXCEPT !.pc = "raised", !.result = "TimeoutError"]
                   ELSE [w EXCEPT !.pc = "sleep"]
        /\ UNCHANGED <<directory, now>>
        /\ UNCHANGED <<config, handle, committed, working, scope, last, ident, factory, retry, temp, logging, frames>>

\* time.sleep(time_between_checks), then the next round
Sleep ==
    /\ wait.pc = "sleep"
    /\ now + wait.time_between_checks <= MaxTime
    /\ now' = now + wait.time_between_checks
    /\ wait' = [wait EXCEPT !.pc = "check", !.i = 1]
    /\ UNCHANGED directory
    /\ UNCHANGED <<config, handle, committed, working, scope, last, ident, factory, retry, temp, logging, frames>>

\* another process puts a file into the directory
Arrive ==
    \E file \in (Wanted \cup Others) \ directory :
        /\ directory' = directory \cup {file}
        /\ UNCHANGED <<now, wait>>
        /\ UNCHANGED <<config, handle, committed, working, scope, last, ident, factory, retry, temp, logging, frames>>

\* ------------------------------------------------------------------------
\* Post-processing of the rows an operation returns: dtype coercion, date
\* parsing, timezone localization.  A table is modelled by the steps applied
\* to it and by whether its date column is parsed and timezone-aware.
\* ------------------------------------------------------------------------
RowOps == {"select", "insert", "update"}

NewFrame(empty) ==
    [steps |-> <<>>, empty |-> empty, parsed |-> FALSE, aware |-> FALSE, error |-> "None"]

\* DataFrame.astype(dtype)
Astype(f) == [f EXCEPT !.steps = Append(@, "dtype")]

\* pd.to_datetime on the columns of parse_dates
ParseDates(f) == [f EXCEPT !.steps = Append(@, "parse_dates"), !.parsed = TRUE]

\* DatabaseConnection.adjust_datetime_timezone: Series.dt.tz_localize(tz)
\* raises AttributeError on a column that holds no datetimes and TypeError
\* on a column that is timezone-aware already
AdjustDatetimeTimezone(f) ==
    IF f.error # "None" THEN f
    ELSE IF ~f.parsed THEN [f EXCEPT !.error = "AttributeError"]
    ELSE IF f.aware THEN [f EXCEPT !.steps = Append(@, "localize"), !.error = "TypeError"]
    ELSE [f EXCEPT !.steps = Append(@, "localize"), !.aware = TRUE]

\* pd.read_sql(query, con, dtype=dtype, parse_dates=parse_dates)
ReadSql(empty, dtype, parse_dates) ==
    LET f1 == NewFrame(empty)
        f2 == IF dtype THEN Astype(f1) ELSE f1
    IN  IF parse_dates THEN ParseDates(f2) ELSE f2

\* "if localize_timezone and parse_dates and not df.empty: df = adjust_datetime_timezone(...)"
Localize(f, parse_dates, localize_timezone) ==
    IF localize_timezone /\ parse_dates /\ ~f.empty THEN AdjustDatetimeTimezone(f) ELSE f

\* select and the echo of insert, both backends: read_sql, then localize
SelectPost(empty, dtype, parse_dates, localize_timezone) ==
    Localize(ReadSql(empty, dtype, parse_dates), parse_dates, localize_timezone)

\* SQLiteConnection.update with return_updated_rows and rows updated
SqliteUpdatePost(empty, dtype, parse_dates, localize_timezone) ==
    LET f1 == NewFrame(empty)
        f2 == IF dtype THEN Astype(f1) ELSE f1
        f3 == IF parse_dates THEN ParseDates(f2) ELSE f2
    IN  Localize(f3, parse_dates, localize_timezone)

\* MySQLConnection.update with return_updated_rows and rows updated:
\* self.select(..., localize_timezone=localize_timezone), then localize
MysqlUpdatePost(empty, dtype, parse_dates, localize_timezone) ==
    Localize(SelectPost(empty, dtype, parse_dates, localize_timezone),
             parse_dates, localize_timezone)

NoPostCall ==
    [op |-> "None", backend |-> "sqlite", dtype |-> FALSE, parse_dates |-> FALSE,
     localize_timezone |-> FALSE, done |-> FALSE]

PostParked ==
    /\ post_call = NoPostCall
    /\ df = NewFrame(TRUE)

\* the post-processing of a select or of the echo of an insert
PostSelect ==
    /\ post_call.op \in {"select", "insert"}
    /\ ~post_call.done
    /\ df' = SelectPost(df.empty, post_call.dtype, post_call.parse_dates,
                        post_call.localize_timezone)
    /\ post_call' = [post_call EXCEPT !.done = TRUE]
    /\ UNCHANGED <<config, handle, committed, working, scope, last, ident, factory, retry, temp, logging, waiting>>

\* the post-processing of the rows an update returns
PostUpdate ==
    /\ post_call.op = "update"
    /\ ~post_call.done
    /\ df' = IF post_call.backend = "sqlite"
             THEN SqliteUpdatePost(df.empty, post_call.dtype, post_call.parse_dates,
                                   post_call.localize_timezone)
             ELSE MysqlUpdatePost(df.empty, post_call.dtype, post_call.parse_dates,
                                  post_call.localize_timezone)
    /\ post_call' = [post_call EXCEPT !.done = TRUE]
    /\ UNCHANGED <<config, handle, committed, working, scope, last, ident, factory, retry, temp, logging, waiting>>

\* ------------------------------------------------------------------------
\* Specification of the Connection
\* ------------------------------------------------------------------------
Init ==
    /\ backend \in {"sqlite", "mysql"}
    /\ autoinc \in BOOLEAN
    /\ backend = "mysql" => autoinc
    /\ db_connection = "None"
    /\ db_cursor = "None"
    /\ isolation_level = "None"
    /\ db_engine = "None"
    /\ committed = EmptyTable
    /\ working = EmptyTable
    /\ scope = FALSE
    /\ last = Call("idle")
    /\ identifier = <<>>
    /\ checked = FALSE
    /\ is_valid = FALSE
    /\ FactoryParked
    /\ RetryParked
    /\ TempParked
    /\ LogParked
    /\ WaitParked
    /\ PostParked

Next ==
    \/ Connect
    \/ Disconnect
    \/ EnterScope
    \/ ExitScope
    \/ Select
    \/ Insert
    \/ Update
    \/ Delete
    \/ Execute
    \/ TableExists
    \/ GetTableInfo
    \/ Continue

Spec == Init /\ [][Next]_vars

\* ------------------------------------------------------------------------
\* Specification of the identifier validator alone: every string over
\* IdentChars of length at most MaxLen is given to _is_valid_identifier
\* ------------------------------------------------------------------------
IdentInit ==
    /\ backend = "sqlite"
    /\ autoinc = FALSE
    /\ db_connection = "None"
    /\ db_cursor = "None"
    /\ isolation_level = "None"
    /\ db_engine = "None"
    /\ committed = EmptyTable
    /\ working = EmptyTable
    /\ scope = FALSE
    /\ last = Call("idle")
    /\ identifier \in StringsUpTo(MaxLen)
    /\ checked = FALSE
    /\ is_valid = FALSE
    /\ FactoryParked
    /\ RetryParked
    /\ TempParked
    /\ LogParked
    /\ WaitParked
    /\ PostParked

IsValidIdentifierCall ==
    /\ ~checked
    /\ checked' = TRUE
    /\ is_valid' = IsValidIdentifier(identifier)
    /\ UNCHANGED <<config, handle, committed, working, scope, last, identifier, factory, retry, temp, logging, waiting, frames>>

IdentNext == IsValidIdentifierCall

IdentSpec == IdentInit /\ [][IdentNext]_vars

\* ------------------------------------------------------------------------
\* Specification of the factory: any sequence of calls on DatabaseFactory
\* ------------------------------------------------------------------------
ConnectionParked ==
    /\ backend = "sqlite"
    /\ autoinc = FALSE
    /\ db_connection = "None"
    /\ db_cursor = "None"
    /\ isolation_level = "None"
    /\ db_engine = "None"
    /\ committed = EmptyTable
    /\ working = EmptyTable
    /\ scope = FALSE
    /\ last = Call("idle")
    /\ identifier = <<>>
    /\ checked = FALSE
    /\ is_valid = FALSE

FactoryInit == ConnectionParked /\ FactoryParked /\ RetryParked /\ TempParked /\ LogParked /\ WaitParked /\ PostParked

FactoryNext ==
    \/ FactoryCreate
    \/ FactoryRegister
    \/ FactoryGetSupportedTypes
    \/ FactoryIsSupported

FactorySpec == FactoryInit /\ [][FactoryNext]_vars

\* ------------------------------------------------------------------------
\* Specification of retry_request: one call, for every choice of arguments
\* and every sequence of answers of the server
\* ------------------------------------------------------------------------
RetryInit ==
    /\ ConnectionParked
    /\ FactoryParked
    /\ TempParked
    /\ LogParked
    /\ WaitParked
    /\ PostParked
    /\ method \in Methods
    /\ max_attempts \in 0..MaxAttempts
    /\ retry_delay \in RetryDelays
    /\ raise_for_status \in BOOLEAN
    /\ attempt = 0
    /\ pc = "loop"
    /\ log = <<>>
    /\ slept = <<>>
    /\ retry_result = NoResult

RetryNext ==
    \/ RetryAttempt
    \/ RetrySleep
    \/ RetryExhausted

RetrySpec == RetryInit /\ [][RetryNext]_vars

\* the loop runs to its end: no statement of retry_request blocks for ever
RetryFairSpec == RetrySpec /\ WF_vars(RetryNext)

\* ------------------------------------------------------------------------
\* Specification of generate_temp_file: calls from two threads or processes
\* on a temporary directory that already holds some files.  Nothing removes
\* a file.  The full directories leave room for one call.
\* ------------------------------------------------------------------------
Numbered(ns) == [s \in Stems |-> IF s = "a" THEN ns ELSE {}]

TempInit ==
    /\ ConnectionParked
    /\ FactoryParked
    /\ RetryParked
    /\ LogParked
    /\ WaitParked
    /\ PostParked
    /\ gen = [c \in Callers |-> NoCall]
    /\ handed = <<>>
    /\ \/ /\ files \in {[Numbered(ns) EXCEPT !["b"] = bs] : ns \in SUBSET (0..2), bs \in SUBSET {0}}
          /\ started = 0
       \/ /\ files \in {Numbered(0..(SafetyLimit - 1)), Numbered(0..(SafetyLimit - 2)),
                        Numbered((0..(SafetyLimit - 1)) \ {500})}
          /\ started = MaxCalls - 1

TempNext ==
    \E c \in Callers :
        \/ GenerateTempFile(c)
        \/ TouchRequested(c)
        \/ TouchNumbered(c)
        \/ GiveUp(c)

TempSpec == TempInit /\ [][TempNext]_vars

\* ------------------------------------------------------------------------
\* Specification of the logging setup: calls from several threads of one
\* process, in any interleaving
\* ------------------------------------------------------------------------
LogInit == ConnectionParked /\ FactoryParked /\ RetryParked /\ TempParked /\ LogParked /\ WaitParked /\ PostParked

LogNext ==
    \E t \in Threads :
        \/ SetupLoggingCall(t)
        \/ SetupLoggingCheck(t)
        \/ GetLoggerCall(t)
        \/ SetupValidate(t)
        \/ SetupAcquire(t)
        \/ SetupApply(t)
        \/ SetupSetFlag(t)
        \/ GetLoggerReturn(t)

LogSpec == LogInit /\ [][LogNext]_vars

\* ------------------------------------------------------------------------
\* Specification of wait_for_files: one call on an existing directory into
\* which other processes put files
\* ------------------------------------------------------------------------
WaitInit ==
    /\ ConnectionParked /\ FactoryParked /\ RetryParked /\ TempParked /\ LogParked /\ PostParked
    /\ directory \in SUBSET (Wanted \cup Others)
    /\ now = 0
    /\ wait = NoWait

WaitNext ==
    \/ WaitForFiles
    \/ CheckFile
    \/ EndRound
    \/ Sleep
    \/ Arrive

WaitSpec == WaitInit /\ [][WaitNext]_vars

\* ------------------------------------------------------------------------
\* Specification of the post-processing: one row-returning call, for every
\* backend, operation and choice of dtype, parse_dates, localize_timezone
\* ------------------------------------------------------------------------
PostInit ==
    /\ ConnectionParked /\ FactoryParked /\ RetryParked /\ TempParked /\ LogParked /\ WaitParked
    /\ post_call \in [op : RowOps, backend : {"sqlite", "mysql"}, dtype : BOOLEAN,
                      parse_dates : BOOLEAN, localize_timezone : BOOLEAN, done : {FALSE}]
    /\ df \in {NewFrame(empty) : empty \in BOOLEAN}

PostNext ==
    \/ PostSelect
    \/ PostUpdate

PostSpec == PostInit /\ [][PostNext]_vars

\* ------------------------------------------------------------------------
\* Properties
\* ------------------------------------------------------------------------
CrudOps == {"select", "insert", "update", "delete", "table_exists", "get_table_info"}

\* no call into the driver, no change of the handle fields or of any row
NothingTouched ==
    /\ DriverTrace(last'.trace) = <<>>
    /\ UNCHANGED <<handle, committed, working>>

\* C1: delete and update called with an empty filter mapping raise
\* ValueError whatever the table name and the state of the Connection,
\* without opening a connection, sending a statement or changing a row.
C1_EmptyFiltersAlwaysRaise ==
    [][(Idle /\ last'.op \in {"delete", "update"} /\ last'.filters = EmptyMap)
        => (last'.result = "ValueError" /\ NothingTouched)]_vars

C1_Witness ==
    /\ last.op = "update"
    /\ last.filters = EmptyMap
    /\ last.parameters = (AgeCol :> 2)
    /\ last.table = NoTable
    /\ last.result = "ValueError"
    /\ Ids(working) # {}
    /\ (db_connection = "open" \/ db_engine = "set")

\* every table or column name a call was given
NamesOf(call) ==
    {call.table} \cup Range(call.columns) \cup DOMAIN call.filters
    \cup DOMAIN call.parameters \cup KeysOf(call.rows)

\* C2: a CRUD call given a table or column name that fails identifier
\* validation raises ValueError before any driver call is made.
C2_BadIdentifierNeverReachesDriver ==
    [][(Idle /\ last'.op \in CrudOps /\ \E n \in NamesOf(last') : ~IsValidIdentifier(n))
        => (last'.result = "ValueError" /\ NothingTouched)]_vars

C2_Witness ==
    /\ last.op = "select"
    /\ last.table = Users
    /\ last.filters = (AgeCol :> 1) @@ (BadCol :> 1)
    /\ last.result = "ValueError"
    /\ db_connection = "None"
    /\ db_engine = "None"

\* letter or underscore first, then letters, digits and underscores only
StrictIdentifier(s) ==
    /\ Len(s) >= 1
    /\ s[1] \in HeadClass
    /\ \A i \in 2..Len(s) : s[i] \in WordClass

\* C3: is_valid_identifier(name) is true exactly for the strings made of a
\* letter or underscore followed by letters, digits and underscores.
C3_ValidIffStrictIdentifier ==
    checked => (is_valid <=> StrictIdentifier(identifier))

\* position of the first occurrence of x in a trace, 0 if there is none
IndexOf(tr, x) ==
    IF \E i \in DOMAIN tr : tr[i] = x
    THEN CHOOSE i \in DOMAIN tr : tr[i] = x /\ \A j \in 1..(i - 1) : tr[j] # x
    ELSE 0

Closed == db_connection = "None" /\ db_cursor = "None" /\ db_engine = "None"

\* C4: leaving a with-block calls rollback first when an exception is
\* propagating, then disconnect on every exit path, leaves the Connection
\* closed, and the caller sees exactly the original exception.
C4_ExitRollsBackDisconnectsReraises ==
    last.op = "__exit__" =>
        /\ last.exc # "None" => IndexOf(last.trace, "_rollback") = 1
        /\ IndexOf(last.trace, "_disconnect_db") > IndexOf(last.trace, "_rollback")
        /\ Closed
        /\ last.result = (IF last.exc = "None" THEN "ok" ELSE last.exc)

\* C5: when insert, update or delete raises DatabaseError on SQLite the
\* stored table is what it was before the call.
C5_FailedWriteCommitsNothing ==
    [][(Idle /\ backend = "sqlite" /\ last'.op \in {"insert", "update", "delete"}
        /\ last'.result = "DatabaseError"
        /\ last'.code \in {"INSERT_ERROR", "UPDATE_ERROR", "DELETE_ERROR"})
        => committed' = committed]_vars

\* C6: when an exception leaves a with-block on a SQLite Connection, what
\* execute(commit=False) wrote and nobody committed is gone, and what was
\* committed before is still there.
C6_ExitOnErrorDiscardsPending ==
    [][(Idle /\ backend = "sqlite" /\ last'.op = "__exit__" /\ last'.exc # "None")
        => (committed' = committed /\ working' = committed)]_vars

C6_Witness ==
    /\ backend = "sqlite"
    /\ last.op = "__exit__"
    /\ last.exc = "ValueError"
    /\ last.dirty
    /\ last.result = "ValueError"
    /\ Ids(committed) # {}

\* the ages of a set of <<id, age>> rows in the order of their ids
RECURSIVE AgesById(_)
AgesById(rs) ==
    IF rs = {} THEN <<>>
    ELSE LET r == CHOOSE q \in rs : \A p \in rs : q[1] <= p[1]
         IN  <<r[2]>> \o AgesById(rs \ {r})

SuppliedAges(rows) == [i \in DOMAIN rows |-> RowAge(rows[i])]

\* C7: on SQLite with a primary key column, insert(rows, return_inserted=True)
\* returns len(rows) rows, the ones this call inserted: new distinct ids, the
\* supplied values, and select by an echoed id returns that row.
C7_InsertEchoesInsertedRows ==
    [][(Idle /\ backend = "sqlite" /\ last'.op = "insert" /\ last'.ret
        /\ last'.result = "ok" /\ IdCol \notin KeysOf(last'.rows))
        => /\ last'.out.kind = "DataFrame"
           /\ last'.out.n = Len(last'.rows)
           /\ {r[1] : r \in last'.out.rows} \cap Ids(working) = {}
           /\ AgesById(last'.out.rows) = SuppliedAges(last'.rows)
           /\ \A r \in last'.out.rows : SelectRows(working', IdCol :> r[1]) = {r}]_vars

\* C8: update with return requested returns exactly the rows the call
\* updated, with their new values, also when an updated column is a filter
\* column.
C8_UpdateReturnsUpdatedRows ==
    [][(Idle /\ last'.op = "update" /\ last'.ret /\ last'.result = "ok")
        => last'.out.rows = SelectIds(working', Matching(working, last'.filters))]_vars

\* C9 as stated: on both backends an update that matches no row, called
\* with return requested, returns an empty tabular result.
C9_NoMatchReturnsEmptyTable ==
    [][(Idle /\ last'.op = "update" /\ last'.ret /\ last'.table = Users
        /\ ValidateIdentifiers(NamesOf(last')) /\ last'.parameters # EmptyMap
        /\ last'.filters # EmptyMap /\ last'.fault = "none"
        /\ Matching(working, last'.filters) = {})
        => (last'.result = "ok" /\ last'.out = DataFrame({}))]_vars

\* C9 amended: such an update does not raise; SQLite returns an empty
\* tabular result, MySQL returns nothing (None).
C9_NoMatchReturnsEmptyOrNone ==
    [][(Idle /\ last'.op = "update" /\ last'.ret /\ last'.table = Users
        /\ ValidateIdentifiers(NamesOf(last')) /\ last'.parameters # EmptyMap
        /\ last'.filters # EmptyMap /\ last'.fault = "none"
        /\ Matching(working, last'.filters) = {})
        => /\ last'.result = "ok"
           /\ backend = "sqlite" => last'.out = DataFrame({})
           /\ backend = "mysql" => last'.out = NoOut]_vars

C9_Witness ==
    /\ backend = "sqlite"
    /\ last.op = "update"
    /\ last.ret
    /\ last.filters = (AgeCol :> 2)
    /\ last.parameters = (AgeCol :> 1)
    /\ last.result = "ok"
    /\ last.out = DataFrame({})
    /\ Ids(committed) # {}

DifferingKeys(rows) == \E i, j \in DOMAIN rows : DOMAIN rows[i] # DOMAIN rows[j]

\* C10: insert with rows whose key sets are not all identical raises
\* ValueError before any row reaches the driver.
C10_DifferingKeysNeverReachDriver ==
    [][(Idle /\ last'.op = "insert" /\ DifferingKeys(last'.rows))
        => (last'.result = "ValueError" /\ NothingTouched)]_vars

C10_Witness ==
    /\ last.op = "insert"
    /\ last.table = Users
    /\ last.rows = <<AgeCol :> 1, (IdCol :> 1) @@ (AgeCol :> 1)>>
    /\ last.result = "ValueError"
    /\ last.trace = <<>>

\* the rows whose uncommitted value differs from the stored one
Pending == {i \in 1..MaxId : working.rows[i] # committed.rows[i]}

\* the ids a write call can write itself: the ids its WHERE clause matches,
\* or for an insert the ids not in use
TouchedBy(call) ==
    IF call.op \in {"update", "delete"} THEN Matching(working, call.filters)
    ELSE (1..MaxId) \ Ids(working)

\* C11: the transaction of a CRUD call covers that call only: rows left
\* pending by an earlier execute(commit=False) are not committed by a later
\* successful insert, update or delete and not rolled back by a later failed
\* insert, update, delete or execute(commit=True).
C11_CrudTransactionCoversOneCall ==
    [][(Idle /\ Pending # {}
        /\ (last'.op \in {"insert", "update", "delete"}
            \/ (last'.op = "execute" /\ last'.commit /\ last'.result # "ok")))
        => \A i \in Pending \ TouchedBy(last') :
              IF last'.result = "ok"
              THEN committed'.rows[i] = committed.rows[i]
              ELSE working'.rows[i] = working.rows[i]]_vars

ConnectPhase == {"open", "pragma"}

\* C12: execute(commit=True) commits on success and rolls back on failure;
\* execute(commit=False) does neither and leaves the rows that were pending
\* as they were; a statement that fails is raised as DatabaseError with
\* code EXECUTE_SQL_ERROR in both modes.
C12_ExecuteCommitModes ==
    [][(Idle /\ last'.op = "execute" /\ last'.fault \notin ConnectPhase)
        => /\ (last'.commit /\ last'.result = "ok")
                => (IndexOf(last'.trace, "commit") > 0 /\ committed' = working'
                    /\ working' = RunStatement(working, last'.sql, autoinc))
           /\ (last'.commit /\ last'.result # "ok")
                => (IndexOf(last'.trace, "rollback") > 0 /\ committed' = committed
                    /\ working' = committed)
           /\ ~last'.commit
                => /\ IndexOf(last'.trace, "commit") = 0
                   /\ IndexOf(last'.trace, "rollback") = 0
                   /\ committed' = committed
                   /\ \A i \in Pending : working'.rows[i] = working.rows[i]
           /\ last'.result # "ok"
                => (last'.result = "DatabaseError" /\ last'.code = "EXECUTE_SQL_ERROR")]_vars

\* the Connection holds a usable handle
IsOpen ==
    IF backend = "sqlite" THEN db_connection # "None" /\ db_cursor # "None"
    ELSE db_engine # "None"

\* the driver calls that open the underlying resource
OpenCalls == {"connect", "create_engine"}

ConnectingOps == {"_connect_db", "__enter__", "execute"} \cup CrudOps

C14_DisconnectNeverRaises ==
    last.op = "_disconnect_db" =>
        /\ last.result = "ok"
        /\ Closed
        /\ \A alive \in BOOLEAN : ~IsConnected(H, alive)

C14_Witness ==
    /\ last.op = "_disconnect_db"
    /\ last.fault = "close"
    /\ last.dirty
    /\ IndexOf(last.trace, "close") > 0
    /\ last.result = "ok"
    /\ Closed

\* the call tried to open the database and the driver's open call raised
OpenFailed(call) ==
    /\ call.fault = "open"
    /\ \E i \in DOMAIN call.trace : call.trace[i] \in OpenCalls

\* C15: when the driver fails to open the database while an operation is
\* connecting (explicit connect, or the implicit connect of select, insert,
\* update, delete, execute, table_exists, get_table_info), the caller
\* receives DatabaseError with code CONNECTION_ERROR.
C15_OpenFailureIsConnectionError ==
    [][(Idle /\ last'.op \in ConnectingOps /\ OpenFailed(last'))
        => (last'.result = "DatabaseError" /\ last'.code = "CONNECTION_ERROR")]_vars

SchemaOps == {"table_exists", "get_table_info"}

\* the call got as far as the existence query and that query failed
ExistsQueryFailed(call) ==
    /\ IsValidIdentifier(call.table)
    /\ call.fault = "execute" \/ (backend = "mysql" /\ call.fault = "link")

\* the existence query ran and answered
ExistsQueryAnswered(call) ==
    /\ IsValidIdentifier(call.table)
    /\ call.fault \notin ConnectPhase
    /\ ~ExistsQueryFailed(call)

\* C16: get_table_info raises TABLE_NOT_FOUND exactly when the existence
\* check ran and found no such table; a failure of the existence query is
\* raised with code TABLE_EXISTS_ERROR, a failure of the column-info query
\* with code TABLE_INFO_ERROR.
C16_SchemaErrorsKeptApart ==
    [][(Idle /\ last'.op \in SchemaOps)
        => /\ last'.code = "TABLE_NOT_FOUND"
                <=> (last'.op = "get_table_info" /\ ExistsQueryAnswered(last')
                     /\ last'.table # Users)
           /\ ExistsQueryFailed(last')
                => (last'.result = "DatabaseError" /\ last'.code = "TABLE_EXISTS_ERROR")
           /\ (last'.op = "get_table_info" /\ last'.table = Users /\ last'.fault = "post")
                => (last'.result = "DatabaseError" /\ last'.code = "TABLE_INFO_ERROR")]_vars

\* C17: every kind that is registered stays registered with the class it was
\* first registered with (the built-in sqlite and mysql included):
\* re-registering a kind raises ValueError, registering a class that is not
\* a Connection subclass raises TypeError, and a rejected registration
\* leaves the registry as it was; create_connection changes nothing either.
C17_RegistryKeepsFirstRegistration ==
    [][/\ \A k \in Kinds : Contains(CONNECTORS, k)
            => (Contains(CONNECTORS', k) /\ Lookup(CONNECTORS', k) = Lookup(CONNECTORS, k))
       /\ Lookup(CONNECTORS', "sqlite") = SQLiteConnection
       /\ Lookup(CONNECTORS', "mysql") = MySQLConnection
       /\ fcall'.op = "register_connector" =>
            /\ Contains(CONNECTORS, fcall'.kind) => fcall'.result = "ValueError"
            /\ (~Contains(CONNECTORS, fcall'.kind) /\ fcall'.cls = NotAConnection)
                    => fcall'.result = "TypeError"
            /\ fcall'.result # "ok" => CONNECTORS' = CONNECTORS
            /\ fcall'.result = "ok"
                    => CONNECTORS' = Append(CONNECTORS, [kind |-> fcall'.kind, cls |-> fcall'.cls])
       /\ fcall'.op # "register_connector" => CONNECTORS' = CONNECTORS]_vars

C17_Witness ==
    /\ fcall.op = "register_connector"
    /\ fcall.kind = "mongodb"
    /\ fcall.cls = SQLiteConnection
    /\ fcall.result = "ValueError"
    /\ Lookup(CONNECTORS, "mongodb") = CustomDBConnection
    /\ Len(CONNECTORS) = 4

\* the members of a list
Members(list) == {list[i] : i \in DOMAIN list}

Success(r) == r.kind = "ok" /\ r.status \in 200..299
Retryable(r) == r.kind = "ExternalServiceError" \/ (r.kind = "ok" /\ r.status \notin 200..299)
Terminal == pc \in {"returned", "raised"}

NonSuccessAnswer(r) ==
    \/ r.kind = "ok" /\ r.status \notin 200..299
    \/ r.kind = "ExternalServiceError" /\ r.code = "HTTP_STATUS_ERROR"

C21_RetriesStatusOnlyWhenAsked ==
    \A i \in 1..(Len(log) - 1) : NonSuccessAnswer(log[i]) => raise_for_status

\* C22: a call that returns created exactly one file, the one it returns the
\* path of, and that file did not exist before the call; no path is returned
\* twice; a call with unique=True that found the requested name taken
\* creates and returns "<stem>_<n><ext>" for the smallest n >= 1 whose file
\* does not exist; with unique=False it raises FileExistsError and creates
\* nothing.
Ended(g) == g.pc \in {"returned", "raised"}
FreeNumbers(fs, s) == (1..(SafetyLimit + 1)) \ fs[s]
SmallestFree(fs, s) == CHOOSE n \in FreeNumbers(fs, s) : \A k \in FreeNumbers(fs, s) : n <= k

CreatesOneNewFile ==
    /\ \A c \in Callers :
          /\ gen[c].pc = "returned" =>
                /\ gen[c].made = {gen[c].path}
                /\ Exists(files, gen[c].path) /\ ~Exists(gen[c].before, gen[c].path)
                /\ gen[c].path.stem = gen[c].stem
          /\ gen[c].pc # "returned" => gen[c].made = {}
    /\ \A i, j \in DOMAIN handed : handed[i] = handed[j] => i = j
    /\ \A i \in DOMAIN handed : Exists(files, handed[i])

TakenWithoutUnique ==
    \A c \in Callers :
        (gen[c].taken /\ ~gen[c].unique /\ Ended(gen[c])) => gen[c].result = "FileExistsError"

\* the step that ends a call whose requested name was taken
ReturnsSmallestFree ==
    \A c \in Callers :
        (gen[c].pc = "loop" /\ gen'[c].pc = "returned") =>
            /\ gen'[c].path = File(gen[c].stem, SmallestFree(files, gen[c].stem))
            /\ files' = [files EXCEPT ![gen[c].stem] = @ \cup {gen'[c].path.n}]

C22_UniqueReturnsSmallestFree ==
    /\ [](/\ CreatesOneNewFile
          /\ TakenWithoutUnique
          /\ \A c \in Callers :
                (gen[c].taken /\ gen[c].unique /\ Ended(gen[c])) => gen[c].pc = "returned")
    /\ [][ReturnsSmallestFree]_vars

\* C22 as amended: the numbers tried are 1..999; when all of them are taken
\* the call raises RuntimeError and creates nothing.
C22_UniqueReturnsSmallestFreeBelowLimit ==
    /\ [](/\ CreatesOneNewFile
          /\ TakenWithoutUnique
          /\ \A c \in Callers :
                (gen[c].taken /\ gen[c].unique /\ Ended(gen[c])) =>
                    \/ gen[c].pc = "returned" /\ gen[c].path.n \in 1..999
                    \/ /\ gen[c].result = "RuntimeError"
                       /\ \A n \in 0..999 : n \in files[gen[c].stem])
    /\ [][ReturnsSmallestFree]_vars

C22_Witness ==
    /\ gen[1].pc = "returned" /\ gen[1].unique /\ gen[1].path = File("a", 2)
    /\ gen[2].pc = "returned" /\ gen[2].unique /\ gen[2].path = File("a", 1)
    /\ gen[1].before["a"] = {0}
    /\ gen[2].before["a"] = {0}
    /\ handed = <<File("a", 1), File("a", 2)>>

\* C23: at most one setup_logging call returns normally, and every other
\* setup_logging call that finishes when logging is configured raises
\* RuntimeError.
SetupCalls == {t \in Threads : thread[t].op = "setup_logging" /\ thread[t].pc = "done"}

C23_SetupRaisesOnceConfigured ==
    /\ Cardinality({t \in SetupCalls : thread[t].result = "returned"}) <= 1
    /\ \A t \in SetupCalls :
          (thread[t].configured_at_end /\ ~thread[t].configured_it)
              => thread[t].result = "RuntimeError"

\* C28: dictConfig succeeds at most once in a process, and
\* _logging_configured is true only after it has succeeded.
C28_ConfiguredAtMostOnce ==
    /\ dict_config.applied <= 1
    /\ logging_configured => dict_config.applied = 1
    /\ \A t \in Threads : thread[t].configured_it => dict_config.applied = 1
    /\ Cardinality({t \in Threads : thread[t].pc \in {"apply", "flag"}}) <= 1

C28_Witness ==
    /\ logging_configured
    /\ dict_config = [calls |-> 2, applied |-> 1]
    /\ thread[1].op = "get_logger" /\ thread[1].result = "returned" /\ thread[1].configured_it
    /\ thread[2].op = "setup_logging" /\ thread[2].result = "returned"
    /\ ~thread[2].configured_it

\* C24: a call on an existing directory ends in one of two ways: it returns
\* a list with one found path for each requested file, or it raises
\* TimeoutError after more than timeout seconds; an empty directory and
\* files that arrive in different rounds are "not yet found".
Requested == {wait.files_list[k] : k \in DOMAIN wait.files_list}

C24_ReturnsAllOrTimesOut ==
    /\ wait.pc = "returned" =>
          /\ Len(wait.found_files_list) = Len(wait.files_list)
          /\ {wait.found_files_list[k] : k \in DOMAIN wait.found_files_list} = Requested
          /\ Requested \subseteq directory
    /\ wait.pc = "raised" =>
          /\ wait.result = "TimeoutError"
          /\ now - wait.start_time > wait.timeout
          /\ Len(wait.found_files_list) < Len(wait.files_list)
    /\ wait.pc = "sleep" => Len(wait.found_files_list) < Len(wait.files_list)

\* C25: on SQLite, when insert, update, delete or execute(commit=True) has
\* run its statement, the handle it ran on was opened with IMMEDIATE
\* isolation, also when the Connection was open before the call.
WriteCall(call) ==
    \/ call.op \in {"insert", "update", "delete"}
    \/ call.op = "execute" /\ call.commit

RanStatement(call) ==
    \E k \in DOMAIN call.trace : call.trace[k] \in {"execute", "executemany"}

C25_WritesRunOnImmediateHandle ==
    (backend = "sqlite" /\ WriteCall(last) /\ RanStatement(last))
        => isolation_level = "IMMEDIATE"

\* C26: a SQLite Connection never opens a driver handle while it references
\* an open one and never drops its reference to a handle that was not
\* closed, so every handle it opened is closed or is the one in
\* db_connection; the cursor is set only while the connection is set.
OpenedHandle(call) ==
    \E k \in DOMAIN call.trace :
        call.trace[k] = "connect" /\ (k < Len(call.trace) \/ call.result = "ok")

C26_OwnsAtMostOneOpenHandle ==
    backend = "sqlite" =>
        /\ db_cursor # "None" => db_connection # "None"
        /\ ~(last.held /\ OpenedHandle(last))
        /\ ~(last.held /\ db_connection = "None" /\ last.fault = "close")

\* C29: leaving a with-block on a SQLite Connection with no exception
\* commits nothing: the database stores what it stored before the exit, the
\* changes that were pending on the handle are gone and the handle is closed.
C29_NormalExitCommitsNothing ==
    (backend = "sqlite" /\ last.op = "__exit__" /\ last.exc = "None") =>
        /\ committed = last.stored
        /\ working = committed
        /\ Closed
        /\ \A k \in DOMAIN last.trace : last.trace[k] \notin {"commit", "rollback"}
        /\ last.result = "ok"

C29_Witness ==
    /\ backend = "sqlite"
    /\ last.op = "__exit__" /\ last.exc = "None"
    /\ last.dirty
    /\ committed # EmptyTable
    /\ Closed

\* C30: on SQLite, a CRUD or schema call or execute leaves the Connection
\* with a driver handle: a handle that was open stays open, and a call on a
\* closed Connection that passes validation and whose sqlite3.connect does
\* not raise opens one and leaves it open, whether it returns or raises.
HandleOps == CrudOps \cup {"execute"}

C30_CallsOpenAndNeverClose ==
    (backend = "sqlite" /\ last.op \in HandleOps) =>
        /\ last.held => db_connection # "None"
        /\ (~last.held /\ last.result # "ValueError" /\ last.fault # "open")
              => (db_connection # "None" /\ OpenedHandle(last))

C30_Witness ==
    /\ backend = "sqlite"
    /\ last.op = "update"
    /\ ~last.held
    /\ last.result = "DatabaseError"
    /\ db_connection = "open" /\ db_cursor = "set"
    /\ last.trace[1] = "connect"

\* The steps a call asks for, in the order dtype coercion, date parsing,
\* timezone localization; localization is asked for with parse_dates on a
\* table that has rows
StepsAskedFor(call, f) ==
    (IF call.dtype THEN <<"dtype">> ELSE <<>>)
    \o (IF call.parse_dates THEN <<"parse_dates">> ELSE <<>>)
    \o (IF call.localize_timezone /\ call.parse_dates /\ ~f.empty THEN <<"localize">> ELSE <<>>)

\* C27: for every row-returning operation (select, insert echo, update
\* return) on both backends, each post-processing step asked for is applied
\* exactly once to the returned rows, in the order dtype coercion, date
\* parsing, timezone localization, and localization is never applied to a
\* column that is localized already.
C27_StepsOnceInOrder ==
    post_call.done =>
        /\ df.steps = StepsAskedFor(post_call, df)
        /\ df.error = "None"

====
